---- MODULE Spec2Model ----
(***************************************************************************)
(* ClarifyAgent: the research worker (agents/subagent.py), the worker pool *)
(* (agents/pool.py), the executor (executor.py), the orchestrator          *)
(* (orchestrator.py), the clarification gate (clarifier.py) and the web    *)
(* session layer (web.py), as state machines.                              *)
(*                                                                         *)
(* Confidence values are integers in hundredths (0.5 is 50).               *)
(* The code runs on one asyncio event loop: a coroutine runs without       *)
(* interruption from one suspension point to the next, so every action     *)
(* below is the code between two suspension points.                        *)
(***************************************************************************)
EXTENDS Integers, Sequences, FiniteSets, TLC

\* ------------------------------------------------------------------ bounds
\* longest subtask list handed to the pool, the executor or the orchestrator
MaxSubtasks == 3
\* largest max_parallel (argument or pool setting)
MaxParallel == 3

\* Python None in a list of results
NoneValue == [none |-> TRUE]

\* ------------------------------------------------------------- data model
\* schema.Subtask: id and focus (queries and parallel are not read by the
\* code modelled here).  Two subtasks share id 2: the planner does not make
\* ids unique.
SubtaskUniverse ==
    { [id |-> 1, focus |-> "moa"],
      [id |-> 2, focus |-> "safety"],
      [id |-> 2, focus |-> "market"] }

\* schema.SubtaskResult
SubtaskResult(id, focus, findings, nsources, confidence) ==
    [subtask_id |-> id, focus |-> focus, findings |-> findings,
     nsources |-> nsources, confidence |-> confidence]

\* sequences over S of length at most n
SeqsUpTo(S, n) == UNION { [1..k -> S] : k \in 0..n }

Min(a, b) == IF a <= b THEN a ELSE b
Max(a, b) == IF a >= b THEN a ELSE b

\* --------------------------------------------------------- config.py names
\* subagent.py 549 and 561: the names search imports from config.py
ImportedConfigNames ==
    {"AGENT_EXECUTION_TIMEOUT", "MAX_AGENT_TURNS", "SOFT_EXIT_TIMEOUT"}
\* config.py: the names it defines among them (it has no SOFT_EXIT_TIMEOUT)
ConfigNames == {"AGENT_EXECUTION_TIMEOUT", "MAX_AGENT_TURNS"}

\* ------------------------------------------------- the worker: environment
\* What the collaborators of one Subagent.search call do:
\*   build   whether _create_agent (build_model, LitellmModel, Agent) succeeds
\*   run     what Runner.run does up to the soft-exit deadline
\*   cancel  what the run does once cancelled at the soft-exit deadline
\*   conf    the confidence the model writes in its final JSON
\*   nsrc    the number of sources in the final JSON that pass URL validation
\*   collected  the number of sources the tool calls of the run have returned
\*           to the agent by the time the run ends
RunBehaviours ==
    {"final_json", "final_text", "model_error", "max_turns", "timeout_error",
     "pending"}
\*           "cancelled"  the run ends with CancelledError at once
\*           "returns"    the run swallows the cancellation and returns
\*           "raises"     the run ends with another exception
\*           "late"       the run ends with CancelledError only when it is
\*                        cancelled again at the hard deadline
\*           "never"      the run never ends
CancelBehaviours == {"cancelled", "returns", "raises", "late", "never"}
ModelConfidences == {0, 80, 120}
SearchEnvs ==
    [build : BOOLEAN, run : RunBehaviours, cancel : CancelBehaviours,
     conf : ModelConfidences, nsrc : 0..1, collected : 0..1]
\* the environments drawn for the searches of a list of subtasks
TaskEnvs ==
    { e \in SearchEnvs :
          /\ e.cancel = "cancelled" /\ e.conf = 80 /\ e.nsrc = 1
          /\ e.collected = 1 }

\* outcome of one search call: what the caller gets and the tasks it leaves
Returned(r, check, runner) ==
    [kind |-> "result", value |-> r, checkTask |-> check, runnerTask |-> runner]
Raised(exc, check, runner) ==
    [kind |-> "raise", value |-> exc, checkTask |-> check, runnerTask |-> runner]
\* the call never returns: it stays suspended at the await of 583
Hung(check, runner) ==
    [kind |-> "hang", value |-> NoneValue, checkTask |-> check,
     runnerTask |-> runner]

\* subagent.py 751-761: the outer handler's placeholder
ErrorPlaceholder(st) ==
    SubtaskResult(st.id, st.focus, "failed", 0, 0)
\* subagent.py 611-617
SoftExitPlaceholder(st) ==
    SubtaskResult(st.id, st.focus, "soft_exit", 0, 50)
\* subagent.py 640-646
MaxTurnsPlaceholder(st) ==
    SubtaskResult(st.id, st.focus, "max_turns", 0, 50)
\* subagent.py 664-670
TimeoutPlaceholder(st) ==
    SubtaskResult(st.id, st.focus, "timeout", 0, 30)

\* subagent.py 563-596 with 598-673: the agent run under the soft-exit wait
\* and the handlers around it, once the imports of 549-561 have succeeded.
RunWithSoftExit(st, env) ==
    CASE env.run = "pending" /\ env.cancel \in {"cancelled", "returns"} ->
            \* 577-587: cancel, await the task, return None; 604-617
            Returned(SoftExitPlaceholder(st), "cancelled", "cancelled")
      [] env.run = "pending" /\ env.cancel = "raises" ->
            \* 591-595 re-raises, 671-673, 751-761
            Returned(ErrorPlaceholder(st), "cancelled", "finished")
      [] env.run = "pending" /\ env.cancel = "late" ->
            \* 599-602: at the hard deadline wait_for cancels the coroutine
            \* suspended at 583; the CancelledError it gets once the run has
            \* ended is swallowed at 584-585, 587 returns None and wait_for
            \* hands that result on: 604-617
            Returned(SoftExitPlaceholder(st), "cancelled", "cancelled")
      [] env.run = "pending" /\ env.cancel = "never" ->
            \* 583 is never resumed, and wait_for waits for the coroutine it
            \* cancelled
            Hung("running", "running")
      [] env.run = "max_turns" ->
            Returned(MaxTurnsPlaceholder(st), "cancelled", "finished")
      [] env.run = "timeout_error" ->
            \* 624-629 re-raises, 647-670
            Returned(TimeoutPlaceholder(st), "cancelled", "finished")
      [] env.run = "model_error" ->
            Returned(ErrorPlaceholder(st), "cancelled", "finished")
      [] env.run = "final_text" ->
            \* 689: _extract_json raises ValueError, 751-761
            Returned(ErrorPlaceholder(st), "cancelled", "finished")
      [] OTHER ->
            \* 685-749: the parsed final JSON
            Returned(SubtaskResult(st.id, st.focus, "parsed", env.nsrc, env.conf),
                     "cancelled", "finished")

\* subagent.py 502-761  Subagent.search, from call to return
Search(st, env) ==
    IF ~env.build
    THEN \* 515: _create_agent is called before the try of 522
         Raised("RuntimeError", "none", "none")
    ELSE IF ~(ImportedConfigNames \subseteq ConfigNames)
    THEN \* 545 starts check_task; 561 raises ImportError; 671-673 cancel
         \* check_task and re-raise; 751-761 return the error placeholder
         Returned(ErrorPlaceholder(st), "cancelled", "none")
    ELSE RunWithSoftExit(st, env)

\* executor.py 36-46: execute_single turns an exception of search into None
ExecuteSingleReturn(out) == IF out.kind = "raise" THEN NoneValue ELSE out.value

\* ------------------------------------------------------------------ state
VARIABLES
    \* one Subagent.search call
    subtask,          \* the subtask given to search
    env,              \* what its collaborators do
    spc,              \* "ready", "returned", "raised" or "hung"
    sret,             \* the outcome of the call
    \* one dispatch of a list of subtasks to workers
    path,             \* "pool": SubagentPool.execute_parallel,
                      \* "web": web.py 560-573, "orch": orchestrator.py 132-137
    subtasks,         \* the subtasks
    argMaxParallel,   \* the max_parallel argument (0: omitted)
    selfMaxParallel,  \* self.max_parallel of the pool
    poolSubagents,    \* len(self._subagents) of the pool
    singleAgent,      \* whether executor._single_agent has been created
    dpc,              \* "idle", "gather", "returned" or "raised"
    numParallel,      \* num_parallel
    batchI,           \* the batch loop's i
    tstate,           \* per position: "new", "scheduled" or "done"
    tworker,          \* per position: the worker instance serving it
    tout,             \* per position: the outcome of its search
    results,          \* the list the gather calls build
    subtaskResults,   \* web.py 573 / orchestrator.py 132-137: the kept results
    cm,               \* the global ConcurrencyManager
    peakInFlight,     \* most searches scheduled and not done at one time
    \* one Orchestrator.run call
    opc,              \* where the call is suspended, "returned" or "raised"
    oplan,            \* plan
    oplanned,         \* what awaiting decompose_task gave
    oret,             \* the returned (plan, research result)
    progress,         \* the stages reported to the progress callback
    oappended,        \* messages appended to the caller's list by run
    \* one web session and the requests made on it
    session,          \* web.py 51-55 with dialog.SessionState
    req,              \* per request: its handler's position and locals
    \* one assess_input call
    ginput,           \* the user's last message
    gresp,            \* what the model answers
    gpc,              \* "idle", "llm", "returned", "raised_llm" (the model
                      \* call raised) or "raised_plan" (building the Plan did)
    gresult,          \* the ClarifyResult parsed from the answer
    gplan,            \* the Plan returned
    \* one synthesize_results call
    synResults,       \* subtask_results
    synReply,         \* what the synthesizer model answers
    synLogDir,        \* whether the directory of the debug log exists
    synPc,            \* "idle", "llm", "returned" or "raised"
    synRet,           \* the ResearchResult returned
    \* the worker's SubtaskResult built from the agent's final output
    fdata,            \* the final output of the agent run
    fpc,              \* "output" or "returned"
    fret,             \* the SubtaskResult returned
    \* one call of enhanced_research_tool
    tenv,             \* what smart_research and the fallback search do
    tpc,              \* "idle", "research", "fallback", "returned", "hung"
    tret,             \* the tool's output
    \* a ConcurrencyManager on its own
    mgr,              \* its fields
    mgrRecent,        \* failures among the requests recorded since the last
                      \* multiple of ten (history, no field of the class)
    mgrTiming,        \* the clock and response times seen by the last record
    \* one call of _calculate_confidence
    cin,              \* its arguments and what the scoring model does
    cpc,              \* "call" or "returned"
    cout,             \* the final confidence
    \* one call of create_research_plan
    pin,              \* the search results and max_results
    ppc,              \* "call" or "returned"
    pout,             \* plan['jina_targets']
    \* one streamed request, from its message to the stored plan
    dstate,           \* the session: SessionState and the pending plan
    dreq              \* the request: its message, position and response

searchVars == <<subtask, env, spc, sret>>
execVars == <<path, subtasks, argMaxParallel, selfMaxParallel, poolSubagents,
              singleAgent, dpc, numParallel, batchI, tstate, tworker, tout,
              results, subtaskResults, cm, peakInFlight>>
orchVars == <<opc, oplan, oplanned, oret, progress, oappended>>
webVars == <<session, req>>
gateVars == <<ginput, gresp, gpc, gresult, gplan>>
synthVars == <<synResults, synReply, synLogDir, synPc, synRet>>
asmVars == <<fdata, fpc, fret>>
toolVars == <<tenv, tpc, tret>>
mgrVars == <<mgr, mgrRecent, mgrTiming>>
confVars == <<cin, cpc, cout>>
planVars == <<pin, ppc, pout>>
dlgVars == <<dstate, dreq>>
unitVars == <<toolVars, mgrVars, confVars, planVars, dlgVars>>
baseVars == <<searchVars, execVars, orchVars, webVars, gateVars, synthVars,
              asmVars>>
vars == <<baseVars, unitVars>>
\* everything but the dispatch state
nonExecVars ==
    <<searchVars, orchVars, webVars, gateVars, synthVars, asmVars, unitVars>>

NoOutcome == [kind |-> "none"]

\* ------------------------------------------------------- Subagent.search
SearchIdle ==
    /\ subtask = [id |-> 0, focus |-> ""]
    /\ env = [build |-> TRUE, run |-> "final_json", cancel |-> "cancelled",
              conf |-> 0, nsrc |-> 0, collected |-> 0]
    /\ spc = "unused"
    /\ sret = NoOutcome

SearchInit ==
    /\ subtask \in SubtaskUniverse
    /\ env \in SearchEnvs
    /\ spc = "ready"
    /\ sret = NoOutcome

\* subagent.py 502-761: search has no suspension point before the import of
\* 561 fails, so the call runs to its end in one step.
SearchCall ==
    /\ spc = "ready"
    /\ sret' = Search(subtask, env)
    /\ spc' = CASE sret'.kind = "raise" -> "raised"
                [] sret'.kind = "hang" -> "hung"
                [] OTHER -> "returned"
    /\ UNCHANGED <<subtask, env, execVars, orchVars, webVars, gateVars,
                   synthVars, asmVars, unitVars>>

\* subagent.py 563-673, entered once the imports of 549-561 have succeeded:
\* check_task is running and search is suspended in wait_for (598), inside
\* run_with_soft_exit
RunInit ==
    /\ subtask \in SubtaskUniverse
    /\ env \in { e \in SearchEnvs : e.build }
    /\ spc = "running"
    /\ sret = NoOutcome

\* subagent.py 563-761: the agent run ends, or a deadline passes, and search
\* goes on to its return
RunEnds ==
    /\ spc = "running"
    /\ sret' = RunWithSoftExit(subtask, env)
    /\ spc' = IF sret'.kind = "hang" THEN "hung" ELSE "returned"
    /\ UNCHANGED <<subtask, env, execVars, orchVars, webVars, gateVars,
                   synthVars, asmVars, unitVars>>

\* subagent.py 569-574 and 590-673: the caller cancels search while
\* run_with_soft_exit waits at asyncio.wait.  CancelledError is no Exception:
\* the handlers of 590, 624, 630, 647 and 671 are passed by, so neither
\* runner_task.cancel() nor check_task.cancel() is called
RunCancelled ==
    /\ spc = "running"
    /\ sret' = Raised("CancelledError", "running", "running")
    /\ spc' = "cancelled"
    /\ UNCHANGED <<subtask, env, execVars, orchVars, webVars, gateVars,
                   synthVars, asmVars, unitVars>>

\* ------------------------------------------------------ ConcurrencyManager
\* config.py 49: MAX_CONCURRENT_REQUESTS
MaxConcurrentRequests == 4
\* concurrency_manager.py 10-18
NewConcurrencyManager ==
    [max_concurrent |-> MaxConcurrentRequests, total_requests |-> 0,
     error_count |-> 0]
\* what the clock and the recorded response times say when a request is
\* recorded: whether 30 s have passed since the last adjustment, and where
\* the average of the last ten response times lies (below 5 s, above 15 s)
TimingInputs == [passed : BOOLEAN, avg : {"fast", "mid", "slow"}]
\* concurrency_manager.py 44-86
AdjustConcurrency(m, t) ==
    IF ~t.passed THEN m
    ELSE IF m.error_count * 10 > m.total_requests
    THEN [m EXCEPT !.max_concurrent = Max(1, m.max_concurrent - 1)]
    ELSE IF t.avg = "slow"
    THEN [m EXCEPT !.max_concurrent = Max(1, m.max_concurrent - 1)]
    ELSE IF t.avg = "fast" /\ m.error_count * 100 < 5 * m.total_requests
    THEN [m EXCEPT !.max_concurrent = Min(8, m.max_concurrent + 1)]
    ELSE m
\* concurrency_manager.py 28-42
RecordRequest(m, success, t) ==
    LET m1 == [m EXCEPT !.total_requests = @ + 1,
                        !.error_count = IF success THEN @ ELSE @ + 1]
    IN IF m1.total_requests % 10 = 0 THEN AdjustConcurrency(m1, t) ELSE m1

\* ------------------------------------------------- dispatching the subtasks
Positions == 1..Len(subtasks)
InFlight(ts) == { p \in DOMAIN ts : ts[p] = "scheduled" }

ExecIdle ==
    /\ path = "none"
    /\ subtasks = <<>>
    /\ argMaxParallel = 0
    /\ selfMaxParallel = 1
    /\ poolSubagents = 0
    /\ singleAgent = FALSE
    /\ dpc = "unused"
    /\ numParallel = 0
    /\ batchI = 0
    /\ tstate = <<>>
    /\ tworker = <<>>
    /\ tout = <<>>
    /\ results = <<>>
    /\ subtaskResults = <<>>
    /\ cm = NewConcurrencyManager
    /\ peakInFlight = 0

\* A call of SubagentPool.execute_parallel on a new pool (any list of at most
\* MaxSubtasks subtasks), or web.py 553-568 (a non-empty list).
ExecInit ==
    /\ path \in {"pool", "web"}
    /\ subtasks \in SeqsUpTo(SubtaskUniverse, MaxSubtasks)
    /\ path = "web" => subtasks # <<>>
    /\ argMaxParallel \in (IF path = "pool" THEN 0..MaxParallel ELSE {0})
    /\ selfMaxParallel \in
          (IF path = "pool" THEN 1..MaxParallel ELSE {Len(subtasks)})
    /\ poolSubagents = 0
    /\ singleAgent = FALSE
    /\ dpc = "idle"
    /\ numParallel = 0
    /\ batchI = 0
    /\ tstate = [p \in Positions |-> "new"]
    /\ tworker = [p \in Positions |-> -1]
    /\ tout = [p \in Positions |-> NoOutcome]
    /\ results = <<>>
    /\ subtaskResults = <<>>
    /\ cm = NewConcurrencyManager
    /\ peakInFlight = 0

\* pool.py 44: max_parallel = max_parallel or self.max_parallel
EffectiveMaxParallel(arg, own) == IF arg # 0 THEN arg ELSE own
\* Variant: every subtask gets a task of its own, whatever max_parallel is.
NumParallelUnbounded(n, mp) == n
\* pool.py 45
NumParallel(n, mp) == Min(n, mp)
\* pool.py 20-24 with 48-51: subagents are created up to index num - 1
SubagentsAfter(have, num) == Max(have, num)
\* pool.py 82 (and 100, where the whole list is one batch): the positions of
\* subtasks[i:i+num]
BatchPositions(i, num, n) == { p \in 1..n : i < p /\ p <= i + num }
\* pool.py 84 and 100: the subagent of the j-th task of a batch
WorkerOf(j, num) == j % num
\* pool.py 83-88 and 98-102: the tasks handed to one gather
ScheduleBatch(i, num) ==
    LET batch == BatchPositions(i, num, Len(subtasks))
    IN /\ tstate' = [p \in Positions |->
                        IF p \in batch THEN "scheduled" ELSE tstate[p]]
       /\ tworker' = [p \in Positions |->
                        IF p \in batch THEN WorkerOf(p - 1 - i, num)
                        ELSE tworker[p]]
       /\ peakInFlight' = Max(peakInFlight, Cardinality(InFlight(tstate')))

\* pool.py 41-88 / 96-102: from the call to the first gather
PoolCall ==
    /\ path = "pool"
    /\ dpc = "idle"
    /\ IF subtasks = <<>>
       THEN /\ dpc' = "returned"
            /\ UNCHANGED <<poolSubagents, numParallel, tstate, tworker,
                           peakInFlight>>
       ELSE /\ numParallel' =
                 NumParallel(Len(subtasks),
                             EffectiveMaxParallel(argMaxParallel, selfMaxParallel))
            /\ poolSubagents' = SubagentsAfter(poolSubagents, numParallel')
            /\ ScheduleBatch(0, numParallel')
            /\ dpc' = "gather"
    /\ UNCHANGED <<path, subtasks, argMaxParallel, selfMaxParallel, singleAgent,
                   batchI, tout, results, subtaskResults, cm, nonExecVars>>

\* pool.py 65-76: timed_search awaits the subagent's search and re-raises
PoolRunTask(p) ==
    /\ path = "pool"
    /\ tstate[p] = "scheduled"
    /\ \E e \in TaskEnvs :
          tout' = [tout EXCEPT ![p] = Search(subtasks[p], e)]
    /\ tstate' = [tstate EXCEPT ![p] = "done"]
    /\ UNCHANGED <<path, subtasks, argMaxParallel, selfMaxParallel,
                   poolSubagents, singleAgent, dpc, numParallel, batchI,
                   tworker, results, subtaskResults, cm, peakInFlight,
                   nonExecVars>>

\* Variant: gather without return_exceptions.
GatherRaisesFirstException == FALSE
\* pool.py 88 and 102: gather(..., return_exceptions=True)
PoolGatherReturnExceptions == TRUE
\* pool.py 90 and 104: an exception becomes None
GatherEntry(out) == IF out.kind = "raise" THEN NoneValue ELSE out.value
RECURSIVE GatherEntries(_, _, _)
GatherEntries(outs, lo, hi) ==
    IF lo >= hi THEN <<>>
    ELSE <<GatherEntry(outs[lo + 1])>> \o GatherEntries(outs, lo + 1, hi)
\* Variant: a batch loop that steps one position too far.
NextBatchStartSkipping(i, num) == i + num + 1
\* pool.py 81: the next i of range(0, len(subtasks), num_parallel)
NextBatchStart(i, num) == i + num

\* pool.py 88-95 / 102-108: a gather returns; the next batch or the return.
\* A gather without return_exceptions would raise at the first exception.
PoolGatherDone ==
    /\ path = "pool"
    /\ dpc = "gather"
    /\ LET batch == BatchPositions(batchI, numParallel, Len(subtasks))
           failed == { p \in batch :
                          tstate[p] = "done" /\ tout[p].kind = "raise" }
       IN IF ~PoolGatherReturnExceptions /\ failed # {}
          THEN /\ dpc' = "raised"
               /\ UNCHANGED <<results, batchI, tstate, tworker, peakInFlight>>
          ELSE /\ \A p \in batch : tstate[p] = "done"
               /\ results' = results \o
                     GatherEntries(tout, batchI,
                                   Min(batchI + numParallel, Len(subtasks)))
               /\ batchI' = NextBatchStart(batchI, numParallel)
               /\ IF batchI' < Len(subtasks)
                  THEN /\ ScheduleBatch(batchI', numParallel)
                       /\ dpc' = "gather"
                  ELSE /\ dpc' = "returned"
                       /\ UNCHANGED <<tstate, tworker, peakInFlight>>
    /\ UNCHANGED <<path, subtasks, argMaxParallel, selfMaxParallel,
                   poolSubagents, singleAgent, numParallel, tout,
                   subtaskResults, cm, nonExecVars>>

\* executor.py 33-34: the one Subagent an Executor creates, Subagent(0, model)
SingleAgentId == 0

\* web.py 560-568 with concurrency_manager.py 88-117: a new Executor, one
\* execute_single coroutine per planned subtask, all handed to one gather.
\* Every one of them runs its search on the executor's _single_agent.
WebDispatch ==
    /\ path = "web"
    /\ dpc = "idle"
    /\ singleAgent' = FALSE
    /\ tstate' = [p \in Positions |-> "scheduled"]
    /\ tworker' = [p \in Positions |-> SingleAgentId]
    /\ peakInFlight' = Max(peakInFlight, Cardinality(InFlight(tstate')))
    /\ dpc' = "gather"
    /\ UNCHANGED <<path, subtasks, argMaxParallel, selfMaxParallel,
                   poolSubagents, numParallel, batchI, tout, results,
                   subtaskResults, cm, nonExecVars>>

\* concurrency_manager.py 99-110 around executor.py 19-46: under the
\* semaphore, execute_single creates the single agent if needed and awaits
\* its search; the request is recorded.  execute_single returns None where
\* search raises, so the request is recorded as a success.
WebRunTask(p) ==
    /\ path = "web"
    /\ tstate[p] = "scheduled"
    /\ cm.max_concurrent > 0
    /\ singleAgent' = TRUE
    /\ \E e \in TaskEnvs :
          tout' = [tout EXCEPT ![p] = Search(subtasks[p], e)]
    /\ \E t \in (IF (cm.total_requests + 1) % 10 = 0 THEN TimingInputs
                 ELSE {[passed |-> FALSE, avg |-> "mid"]}) :
          cm' = RecordRequest(cm, TRUE, t)
    /\ tstate' = [tstate EXCEPT ![p] = "done"]
    /\ UNCHANGED <<path, subtasks, argMaxParallel, selfMaxParallel,
                   poolSubagents, dpc, numParallel, batchI, tworker, results,
                   subtaskResults, peakInFlight, nonExecVars>>

\* web.py 573: the results that are neither None nor an exception
RECURSIVE KeptResults(_)
KeptResults(rs) ==
    IF rs = <<>> THEN <<>>
    ELSE (IF Head(rs) = NoneValue THEN <<>> ELSE <<Head(rs)>>)
         \o KeptResults(Tail(rs))

\* concurrency_manager.py 117-128 and web.py 568-573: the gather returns
WebGatherDone ==
    /\ path = "web"
    /\ dpc = "gather"
    /\ \A p \in Positions : tstate[p] = "done"
    /\ results' = [p \in Positions |-> ExecuteSingleReturn(tout[p])]
    /\ subtaskResults' = KeptResults(results')
    /\ dpc' = "returned"
    /\ UNCHANGED <<path, subtasks, argMaxParallel, selfMaxParallel,
                   poolSubagents, singleAgent, numParallel, batchI, tstate,
                   tworker, tout, cm, peakInFlight, nonExecVars>>

\* ------------------------------------------------------- Orchestrator.run
\* schema.py 4-10: NextAction
NextActions ==
    {"START_RESEARCH", "NEED_CLARIFICATION", "CONFIRM_PLAN", "VERIFY_TOPIC",
     "CANNOT_DO"}
\* plan.task.research_focus
FocusLists ==
    { <<>>, <<"moa", "safety">>, <<"moa", "safety", "market", "dosing">> }
\* schema.Plan as run reads it: next_action and task.research_focus.  run
\* takes whatever Plan assess_input returns, so the plans range over the
\* whole of NextAction here; the gate's own rule is AssessInputAction below.
Plans == [next_action : NextActions, research_focus : FocusLists]
NoPlan == [next_action |-> "none", research_focus |-> <<>>]
\* what awaiting assess_input gives: a Plan, or an exception of the model call
AssessOutcomes ==
    {[kind |-> "raise"]} \cup { [kind |-> "plan", plan |-> pl] : pl \in Plans }
\* planner.py 121-129: a subtask is built from whatever the model wrote;
\* focus defaults to "" and queries to []
PlannerSubtasks == SubtaskUniverse \cup {[id |-> 3, focus |-> ""]}
\* what awaiting decompose_task gives (planner.py 96-133): an exception (of
\* the model call, or of _extract_json on output without JSON), or the list
\* of the subtasks in the model's JSON
PlannerOutcomes ==
    {[kind |-> "raise"]} \cup
    { [kind |-> "subtasks", subtasks |-> l] :
          l \in SeqsUpTo(PlannerSubtasks, MaxSubtasks) }
\* orchestrator.py 116: research_focus[:3]
FallbackLimit == 3
\* orchestrator.py 109-117
FallbackSubtasks(rf) ==
    [i \in 1..Min(Len(rf), FallbackLimit) |-> [id |-> i, focus |-> rf[i]]]
\* synthesizer.py 211-218 / 262-268: findings = {r.focus: r for r in results}
Findings(rs) ==
    [f \in { rs[k].focus : k \in DOMAIN rs } |->
        rs[CHOOSE k \in DOMAIN rs :
              /\ rs[k].focus = f
              /\ \A j \in DOMAIN rs : rs[j].focus = f => j <= k]]
ResearchResult(rf, rs) == [research_focus |-> rf, findings |-> Findings(rs)]
NoReturn == [plan |-> NoPlan, result |-> NoneValue]

OrchIdle ==
    /\ opc = "unused"
    /\ oplan = NoPlan
    /\ oplanned = NoOutcome
    /\ oret = NoReturn
    /\ progress = <<>>
    /\ oappended = 0

\* orchestrator.py 18-31: a new Orchestrator with its Executor, and a call
OrchInit ==
    /\ path = "orch"
    /\ subtasks = <<>>
    /\ argMaxParallel = 0
    /\ selfMaxParallel \in 1..MaxParallel
    /\ poolSubagents = 0
    /\ singleAgent = FALSE
    /\ dpc = "unused"
    /\ numParallel = 0
    /\ batchI = 0
    /\ tstate = <<>>
    /\ tworker = <<>>
    /\ tout = <<>>
    /\ results = <<>>
    /\ subtaskResults = <<>>
    /\ cm = NewConcurrencyManager
    /\ peakInFlight = 0
    /\ opc = "idle"
    /\ oplan = NoPlan
    /\ oplanned = NoOutcome
    /\ oret = NoReturn
    /\ progress = <<>>
    /\ oappended = 0

\* return plan, result
OrchReturn(pl, r) ==
    /\ opc' = "returned"
    /\ oret' = [plan |-> pl, result |-> r]

\* Variant: a CONFIRM_PLAN plan is researched without waiting for the user.
StartsResearchOnConfirm(pl) ==
    pl.next_action \in {"START_RESEARCH", "CONFIRM_PLAN"}
\* orchestrator.py 94: if plan.next_action == "START_RESEARCH"
StartsResearch(pl) == pl.next_action = "START_RESEARCH"
\* orchestrator.py 68-70, 94-99 and 167-168: what follows an assessment that
\* is not VERIFY_TOPIC
AfterAssessment(pl) ==
    IF StartsResearch(pl)
    THEN /\ progress' = Append(progress, "planning")
         /\ opc' = "planning"
         /\ oret' = oret
    ELSE /\ OrchReturn(pl, NoneValue)
         /\ progress' = progress

\* orchestrator.py 41-61: the call, up to the await of assess_input
OrchCall ==
    /\ opc = "idle"
    /\ opc' = "assess1"
    /\ UNCHANGED <<oplan, oplanned, oret, progress, oappended, execVars,
                   searchVars, webVars, gateVars, synthVars, asmVars,
                   unitVars>>

\* orchestrator.py 61-78 / 94-99: the first assessment is outside any try
OrchAssessed ==
    /\ opc = "assess1"
    /\ \E out \in AssessOutcomes :
          IF out.kind = "raise"
          THEN /\ opc' = "raised"
               /\ UNCHANGED <<oplan, oret, progress>>
          ELSE /\ oplan' = out.plan
               /\ IF out.plan.next_action = "VERIFY_TOPIC"
                  THEN /\ opc' = "topic_search"
                       /\ UNCHANGED <<oret, progress>>
                  ELSE AfterAssessment(out.plan)
    /\ UNCHANGED <<oplanned, oappended, execVars, searchVars, webVars,
                   gateVars, synthVars, asmVars, unitVars>>

\* orchestrator.py 78-92: web_search returns or raises
OrchTopicSearched ==
    /\ opc = "topic_search"
    /\ \E ok \in BOOLEAN :
          IF ok
          THEN /\ oappended' = oappended + 1
               /\ opc' = "assess2"
               /\ oret' = oret
          ELSE /\ OrchReturn(oplan, NoneValue)
               /\ oappended' = oappended
    /\ UNCHANGED <<oplan, oplanned, progress, execVars, searchVars, webVars,
                   gateVars, synthVars, asmVars, unitVars>>

\* orchestrator.py 85-99: the second assessment, inside the try of 77
OrchReassessed ==
    /\ opc = "assess2"
    /\ \E out \in AssessOutcomes :
          IF out.kind = "raise"
          THEN /\ OrchReturn(oplan, NoneValue)
               /\ UNCHANGED <<oplan, progress>>
          ELSE /\ oplan' = out.plan
               /\ AfterAssessment(out.plan)
    /\ UNCHANGED <<oplanned, oappended, execVars, searchVars, webVars,
                   gateVars, synthVars, asmVars, unitVars>>

\* orchestrator.py 99-132: decompose_task returns or raises; the fallback;
\* the reports before the loop
OrchPlanned ==
    /\ opc = "planning"
    /\ \E out \in PlannerOutcomes :
          LET sts == IF out.kind = "raise" THEN <<>>
                     ELSE IF out.subtasks # <<>> THEN out.subtasks
                     ELSE FallbackSubtasks(oplan.research_focus)
          IN /\ oplanned' = out
             /\ IF out.kind = "raise"
                THEN /\ progress' = Append(progress, "error")
                     /\ OrchReturn(oplan, NoneValue)
                     /\ UNCHANGED <<subtasks, tstate, tworker, tout>>
                ELSE IF sts = <<>>
                THEN /\ OrchReturn(oplan, NoneValue)
                     /\ UNCHANGED <<progress, subtasks, tstate, tworker, tout>>
                ELSE /\ subtasks' = sts
                     /\ tstate' = [p \in DOMAIN sts |-> "new"]
                     /\ tworker' = [p \in DOMAIN sts |-> -1]
                     /\ tout' = [p \in DOMAIN sts |-> NoOutcome]
                     /\ progress' = progress \o <<"planning", "searching">>
                     /\ opc' = "searching"
                     /\ oret' = oret
    /\ UNCHANGED <<oplan, oappended, path, argMaxParallel, selfMaxParallel,
                   poolSubagents, singleAgent, dpc, numParallel, batchI,
                   results, subtaskResults, cm, peakInFlight, searchVars,
                   webVars, gateVars, synthVars, asmVars, unitVars>>

\* orchestrator.py 133-147 with executor.py 19-46: one iteration of the loop
\* over the subtasks, each awaited before the next is started; after the last
\* one, the check of 141 and the report of 147
OrchSearchStep ==
    /\ opc = "searching"
    /\ LET p == CHOOSE q \in Positions :
                    tstate[q] = "new" /\ \A r \in 1..(q - 1) : tstate[r] = "done"
       IN \E e \in TaskEnvs :
          LET out == Search(subtasks[p], e)
              r == ExecuteSingleReturn(out)
              kept == IF r = NoneValue THEN subtaskResults
                      ELSE Append(subtaskResults, r)
          IN /\ singleAgent' = TRUE
             /\ tworker' = [tworker EXCEPT ![p] = SingleAgentId]
             /\ tout' = [tout EXCEPT ![p] = out]
             /\ tstate' = [tstate EXCEPT ![p] = "done"]
             /\ peakInFlight' = Max(peakInFlight, 1)
             /\ subtaskResults' = kept
             /\ IF p < Len(subtasks)
                THEN /\ progress' = Append(progress, "searching")
                     /\ UNCHANGED <<opc, oret>>
                ELSE IF kept = <<>>
                THEN /\ progress' = progress \o <<"searching", "error">>
                     /\ OrchReturn(oplan, NoneValue)
                ELSE /\ progress' = progress \o <<"searching", "synthesizing">>
                     /\ opc' = "synthesizing"
                     /\ oret' = oret
    /\ UNCHANGED <<oplan, oplanned, oappended, path, subtasks, argMaxParallel,
                   selfMaxParallel, poolSubagents, dpc, numParallel, batchI,
                   results, cm, searchVars, webVars, gateVars, synthVars,
                   asmVars, unitVars>>

\* Variant: "complete" is reported before synthesize_results is awaited.
SynthesisStagesCompleteFirst(ok) ==
    IF ok THEN <<"complete">> ELSE <<"complete", "error">>
\* orchestrator.py 156 and 163: the stage reported once synthesize_results
\* has returned (ok) or raised
SynthesisStages(ok) == IF ok THEN <<"complete">> ELSE <<"error">>
\* orchestrator.py 149-165: synthesize_results returns or raises
OrchSynthesized ==
    /\ opc = "synthesizing"
    /\ \E ok \in BOOLEAN :
          /\ progress' = progress \o SynthesisStages(ok)
          /\ IF ok
             THEN OrchReturn(oplan,
                             ResearchResult(oplan.research_focus, subtaskResults))
             ELSE OrchReturn(oplan, NoneValue)
    /\ UNCHANGED <<oplan, oplanned, oappended, execVars, searchVars, webVars,
                   gateVars, synthVars, asmVars, unitVars>>

\* ------------------------------------------------- the clarification gate
\* universal_clarifier.py 25-30: ClarifyAction
ClarifyActions == {"PROCEED", "NEED_CLARIFICATION", "CONFIRM", "REJECT"}
\* clarifier.py 100-106: action_map
ConvertAction(a) ==
    CASE a = "PROCEED" -> "START_RESEARCH"
      [] a = "NEED_CLARIFICATION" -> "NEED_CLARIFICATION"
      [] a = "CONFIRM" -> "CONFIRM_PLAN"
      [] a = "REJECT" -> "CANNOT_DO"
      [] OTHER -> "NEED_CLARIFICATION"
\* Variant: line 389 in place of line 388, research without confirmation.
PostProcessActionDirect(a, conf) ==
    IF a = "PROCEED" /\ conf >= 95 THEN "START_RESEARCH"
    ELSE IF a = "PROCEED" /\ conf >= 70 THEN "CONFIRM_PLAN"
    ELSE IF a = "CONFIRM" /\ conf >= 60 THEN "CONFIRM_PLAN"
    ELSE "NEED_CLARIFICATION"
\* clarifier.py 386-401: the rule that overwrites plan.next_action
PostProcessAction(a, conf) ==
    IF a = "PROCEED" /\ conf >= 95 THEN "CONFIRM_PLAN"
    ELSE IF a = "PROCEED" /\ conf >= 70 THEN "CONFIRM_PLAN"
    ELSE IF a = "CONFIRM" /\ conf >= 60 THEN "CONFIRM_PLAN"
    ELSE "NEED_CLARIFICATION"
\* clarifier.py 145-154: the clarification built from the first question
\* ("none": no question, "options": a question with options, "open": without,
\* "blank": a first question whose text is empty)
QuestionKinds == {"none", "options", "open", "blank"}
\* clarifier.py 361-403: _convert_to_plan, then the rule; a is what
\* UniversalClarifier.assess returned
AssessInputPlan(a) ==
    [next_action |-> PostProcessAction(a.action, a.conf),
     converted |-> ConvertAction(a.action),
     confidence |-> a.conf,
     clarification |-> a.question,
     research_focus |-> a.research_focus]
\* the assessments drawn for the requests of a session: what the model
\* answered, or "raise" where the model call fails (universal_clarifier.py
\* 500).  research_focus is never empty (clarifier.py 138-143).
SessionAssessments ==
    { [action |-> "PROCEED", conf |-> 95, question |-> "none",
       research_focus |-> <<"moa", "safety">>],
      [action |-> "CONFIRM", conf |-> 50, question |-> "options",
       research_focus |-> <<"moa">>],
      [action |-> "NEED_CLARIFICATION", conf |-> 30, question |-> "open",
       research_focus |-> <<"moa">>],
      [action |-> "REJECT", conf |-> 90, question |-> "none",
       research_focus |-> <<"moa">>] }
SessionAssessOutcomes ==
    {[kind |-> "raise"]} \cup
    { [kind |-> "plan", plan |-> AssessInputPlan(a)] : a \in SessionAssessments }
\* the subtask lists the planner returns to a session's requests
SessionPlannerOutcomes ==
    { [kind |-> "raise"],
      [kind |-> "subtasks", subtasks |-> <<>>],
      [kind |-> "subtasks",
       subtasks |-> << [id |-> 1, focus |-> "moa"],
                       [id |-> 2, focus |-> "safety"] >>] }
\* the worker environments of a session's research
SessionTaskEnvs == { e \in TaskEnvs : e.run = "final_json" }

\* ------------------------------------------------------ one assess_input call
\* confidences the model writes (hundredths), on both sides of the rule's
\* thresholds
GateConfidences == {0, 30, 59, 60, 69, 70, 94, 95, 100}
\* the "action" of the model's JSON: a ClarifyAction, no such key, or a
\* string that is no ClarifyAction
ResponseActions == ClarifyActions \cup {"absent", "other"}
\* the "confidence" of the model's JSON: no such key, a number, or a value
\* that is no number (null, "high")
ResponseConfidences ==
    {[kind |-> "absent"], [kind |-> "text"]} \cup
    { [kind |-> "number", value |-> c] : c \in GateConfidences }
\* the model's answer: text without a JSON object in it, or a JSON object
\* with its action, its confidence and the first of its questions
ModelResponses ==
    {[parses |-> FALSE]} \cup
    [parses : {TRUE}, action : ResponseActions,
     confidence : ResponseConfidences, question : QuestionKinds]
\* clarifier.py 138-143: research_focus when the draft and the parsed intent
\* give none
DefaultFocus == <<"general">>
\* the user's last message: one that speaks of the user's own project
\* without naming it, and one that names its subject
UserInputs == {"evaluate our product", "evaluate aspirin"}
\* universal_clarifier.py 388-395  _detect_private_info
DetectPrivateInfo(text) == text = "evaluate our product"
\* universal_clarifier.py 397-422 and 466-478: the pre-analysis is computed
\* and placed in the payload sent to the model; nothing else reads it
PreAnalyze(text) == [has_private_info |-> DetectPrivateInfo(text)]
\* Variant: a fallback that asks nothing.
FallbackResultNoQuestion ==
    [action |-> "NEED_CLARIFICATION", conf |-> 0, question |-> "none",
     research_focus |-> <<"general">>]
\* universal_clarifier.py 576-588: the result for an answer that does not parse
FallbackResult ==
    [action |-> "NEED_CLARIFICATION", conf |-> 0, question |-> "open",
     research_focus |-> DefaultFocus]
\* universal_clarifier.py 548-588  _parse_response, for an answer whose
\* confidence is absent or a number
ParseResponse(resp) ==
    IF ~resp.parses THEN FallbackResult
    ELSE IF resp.action = "other" THEN FallbackResult
    ELSE [action |-> IF resp.action = "absent" THEN "NEED_CLARIFICATION"
                     ELSE resp.action,
          conf |-> IF resp.confidence.kind = "absent" THEN 50
                   ELSE resp.confidence.value,
          question |-> resp.question,
          research_focus |-> DefaultFocus]
\* clarifier.py 157-165 with schema.py 40: Plan(confidence=...) rejects a
\* confidence that is no number
PlanValidationFails(resp) ==
    /\ resp.parses
    /\ resp.action # "other"
    /\ resp.confidence.kind = "text"
NoResult == [action |-> "none"]
NoGatePlan == [next_action |-> "none"]

GateIdle ==
    /\ ginput = "none"
    /\ gresp = [parses |-> FALSE]
    /\ gpc = "unused"
    /\ gresult = NoResult
    /\ gplan = NoGatePlan

GateInit ==
    /\ ginput \in UserInputs
    /\ gresp \in ModelResponses
    /\ gpc = "idle"
    /\ gresult = NoResult
    /\ gplan = NoGatePlan

\* clarifier.py 170-332 with universal_clarifier.py 440-500: the call, up to
\* the await of the model call
GateCall ==
    /\ gpc = "idle"
    /\ gpc' = "llm"
    /\ UNCHANGED <<ginput, gresp, gresult, gplan, searchVars, execVars,
                   orchVars, webVars, synthVars, asmVars, unitVars>>

\* universal_clarifier.py 500-546 and clarifier.py 332-403: the model call
\* raises, or its answer is parsed, converted to a Plan and put through the
\* decision rule
GateReplied ==
    /\ gpc = "llm"
    /\ \E answered \in BOOLEAN :
          IF ~answered
          THEN /\ gpc' = "raised_llm"
               /\ UNCHANGED <<gresult, gplan>>
          ELSE IF PlanValidationFails(gresp)
          THEN /\ gpc' = "raised_plan"
               /\ UNCHANGED <<gresult, gplan>>
          ELSE /\ gresult' = ParseResponse(gresp)
               /\ gplan' = AssessInputPlan(gresult')
               /\ gpc' = "returned"
    /\ UNCHANGED <<ginput, gresp, searchVars, execVars, orchVars, webVars,
                   synthVars, asmVars, unitVars>>

\* ------------------------------------------------ one synthesize_results call
\* most subtask results given to one call
MaxSynthResults == 2
\* most citations in the model's JSON, and most sources in one citation
MaxCitations == 2
MaxCitationSources == 2
\* the SubtaskResults a call can be given, as the synthesizer reads them:
\* subtask_id, focus and the URLs of the sources.  The planner makes neither
\* ids nor focus labels unique (planner.py 121-129), and a Source may have an
\* empty url (schema.py 43-47).
SynthResultUniverse ==
    { [subtask_id |-> 1, focus |-> "moa", urls |-> <<"a">>],
      [subtask_id |-> 2, focus |-> "moa", urls |-> <<"b", "">>],
      [subtask_id |-> 1, focus |-> "safety", urls |-> <<>>] }
\* the URLs the model may write: of a source ("a") or of no source ("x")
ReplyUrls == {"a", "x"}
\* the "citations" of the model's JSON: each citation is the list of the
\* URLs of its sources
ReplyCitations ==
    SeqsUpTo(SeqsUpTo(ReplyUrls, MaxCitationSources), MaxCitations)
\* what awaiting Runner.run gives: an exception, text without JSON in it, a
\* JSON object whose "citations" is no list of objects, or a JSON object with
\* its citations and the URLs cited inline in its "synthesis" text
SynthReplies ==
    {[kind |-> "raise"], [kind |-> "no_json"], [kind |-> "odd_json"]} \cup
    [kind : {"json"}, citations : ReplyCitations,
     inline : SUBSET ReplyUrls]

\* synthesizer.py 220-228: valid_urls
ValidUrls(rs) ==
    { u \in UNION { { rs[k].urls[i] : i \in DOMAIN rs[k].urls } :
                       k \in DOMAIN rs } : u # "" }
\* synthesizer.py 233-248 without the test of 237
ValidatedSourcesUnchecked(srcs, valid) == srcs
\* synthesizer.py 233-248: validated_sources of one citation
ValidatedSources(srcs, valid) == SelectSeq(srcs, LAMBDA u : u \in valid)
\* synthesizer.py 230-257: citations
RECURSIVE FilterCitations(_, _)
FilterCitations(cits, valid) ==
    IF cits = <<>> THEN <<>>
    ELSE LET validated == ValidatedSources(Head(cits), valid)
         IN  (IF validated # <<>> THEN <<validated>> ELSE <<>>)
                 \o FilterCitations(Tail(cits), valid)
\* synthesizer.py 211-218: the result of the except branch; its synthesis is
\* built from the findings of every result, in order
SynthFallback(rs) ==
    [findings |-> Findings(rs),
     synthesis |-> [kind |-> "raw", of |-> [k \in DOMAIN rs |-> rs[k].focus],
                    inline |-> {}],
     citations |-> <<>>]
\* synthesizer.py 262-268: synthesis is data.get("synthesis", "")
SynthResult(rs, reply) ==
    [findings |-> Findings(rs),
     synthesis |-> [kind |-> "model", of |-> <<>>, inline |-> reply.inline],
     citations |-> FilterCitations(reply.citations, ValidUrls(rs))]

SynthIdle ==
    /\ synResults = <<>>
    /\ synReply = [kind |-> "raise"]
    /\ synLogDir = FALSE
    /\ synPc = "unused"
    /\ synRet = NoneValue

SynthInit ==
    /\ synResults \in SeqsUpTo(SynthResultUniverse, MaxSynthResults) \ {<<>>}
    /\ synReply \in SynthReplies
    /\ synLogDir \in BOOLEAN
    /\ synPc = "idle"
    /\ synRet = NoneValue

\* synthesizer.py 129-190: the call, up to the await of Runner.run.  The
\* debug log is opened at 149, 168 and 183, outside any try.
SynthCall ==
    /\ synPc = "idle"
    /\ synPc' = IF synLogDir THEN "llm" ELSE "raised"
    /\ UNCHANGED <<synResults, synReply, synLogDir, synRet, searchVars,
                   execVars, orchVars, webVars, gateVars, asmVars, unitVars>>

\* synthesizer.py 190-268: Runner.run raises or is answered; the except
\* branch of 203-218 or the citations of 220-268
SynthReplied ==
    /\ synPc = "llm"
    /\ CASE synReply.kind \in {"raise", "no_json"} ->
              /\ synRet' = SynthFallback(synResults)
              /\ synPc' = "returned"
         [] synReply.kind = "odd_json" ->
              /\ synPc' = "raised"
              /\ UNCHANGED synRet
         [] OTHER ->
              /\ synRet' = SynthResult(synResults, synReply)
              /\ synPc' = "returned"
    /\ UNCHANGED <<synResults, synReply, synLogDir, searchVars, execVars,
                   orchVars, webVars, gateVars, asmVars, unitVars>>

\* ------------------------- the worker: from the final output to the result
\* most sources in the final JSON, and most parameters in the query of a URL
MaxSources == 2
MaxQueryParams == 2
\* subagent.py 698 and 725: at most 8 sources are read and kept
SourceLimit == 8
\* query parameters: two that clean_url takes for tracking parameters (the
\* second carries a DOI as its value) and one it keeps
QueryParams == {"utm_source=a", "ref=10.1234/x", "id=3"}
\* a URL as urlparse splits it; NotAUrl is "" or text without http(s)://
SourceUrls ==
    [host : {"example.com", "doi.org"},
     path : {"/a", "/10.1234/x", "/articles"},
     query : SeqsUpTo(QueryParams, MaxQueryParams)]
NotAUrl == [host |-> "", path |-> "", query |-> <<>>]
\* re.search(r'10\.\d+/', url): over the whole URL, its query included
HasDoi(u) ==
    \/ u.path = "/10.1234/x"
    \/ \E i \in DOMAIN u.query : u.query[i] = "ref=10.1234/x"
\* subagent.py 46-153
IsValidSourceUrl(u) ==
    /\ u # NotAUrl
    /\ u.path # "/articles"
    /\ u.host = "doi.org" => HasDoi(u)
\* subagent.py 166-167: the parameters clean_url removes
IsTrackingParam(q) == q \in {"utm_source=a", "ref=10.1234/x"}
\* subagent.py 156-174
CleanUrl(u) ==
    IF u.query # <<>>
    THEN [u EXCEPT !.query = SelectSeq(@, LAMBDA q : ~IsTrackingParam(q))]
    ELSE u
\* subagent.py 693-727: sources
RECURSIVE KeptSources(_)
KeptSources(srcs) ==
    IF srcs = <<>> THEN <<>>
    ELSE (IF IsValidSourceUrl(Head(srcs)) THEN <<CleanUrl(Head(srcs))>>
          ELSE <<>>) \o KeptSources(Tail(srcs))
\* the "confidence" of the final JSON: no such key, a number (hundredths),
\* or a value that is no number
FinalConfidences ==
    {[kind |-> "absent"], [kind |-> "text"]} \cup
    { [kind |-> "number", value |-> c] : c \in ModelConfidences \cup {-10} }
\* what Runner.run leaves in result.final_output: text without JSON, or a
\* JSON object with the URLs of its sources and its confidence
FinalOutputs ==
    {[kind |-> "no_json"]} \cup
    [kind : {"json"}, sources : SeqsUpTo(SourceUrls \cup {NotAUrl}, MaxSources),
     confidence : FinalConfidences]
\* subagent.py 748: data.get("confidence", 0.5)
ResultConfidence(c) == IF c.kind = "absent" THEN 50 ELSE c.value
\* subagent.py 686-761: the returned SubtaskResult; _extract_json and the
\* validation of schema.SubtaskResult raise into the handler of 751-761
AssembledResult(d) ==
    IF d.kind = "no_json" \/ d.confidence.kind = "text"
    THEN [findings |-> "failed", sources |-> <<>>, confidence |-> 0]
    ELSE [findings |-> "parsed",
          sources |-> KeptSources(SubSeq(d.sources, 1,
                                         Min(Len(d.sources), SourceLimit))),
          confidence |-> ResultConfidence(d.confidence)]

AsmIdle ==
    /\ fdata = [kind |-> "no_json"]
    /\ fpc = "unused"
    /\ fret = NoneValue

AsmInit ==
    /\ fdata \in FinalOutputs
    /\ fpc = "output"
    /\ fret = NoneValue

\* subagent.py 686-761: search, from the return of Runner.run to its own
AssembleResult ==
    /\ fpc = "output"
    /\ fret' = AssembledResult(fdata)
    /\ fpc' = "returned"
    /\ UNCHANGED <<fdata, searchVars, execVars, orchVars, webVars, gateVars,
                   synthVars, unitVars>>

\* -------------------------------------------------------- the web session
\* requests made on the session
MaxRequests == 3
Requests == 1..MaxRequests
\* message classes: a research request ("请调研 ..."), a confirming reply
\* ("ok start")
RequestMessages == {"research", "confirm"}
\* web.py 203-210
IsConfirmation(msg) == msg = "confirm"
\* dialog.py 33-64
IsNewResearchTask(msg) == msg = "research"

\* web.py 51-55, dialog.py 5-11
NewSession ==
    [messages |-> <<>>, pending_plan |-> NoneValue,
     planned_subtasks |-> NoneValue, conversation_mode |-> "research",
     has_research_result |-> FALSE, orchestrator |-> FALSE, plans |-> 0]
NewRequest ==
    [kind |-> "none", msg |-> "none", pc |-> "idle", pending_plan |-> NoneValue,
     planned_subtasks |-> NoneValue, plan |-> NoneValue, branch |-> "none",
     confirmed |-> NoneValue, response |-> "none", result |-> NoneValue,
     failed |-> FALSE]

WebIdle ==
    /\ session = NewSession
    /\ req = <<>>
WebInit ==
    /\ session = NewSession
    /\ req = [r \in Requests |-> NewRequest]

\* dialog.py 13-14 and 22-24
AddMessage(ss, m) == [ss EXCEPT !.messages = Append(@, m)]
\* web.py 338 / 353 / 766 / 799 / 808: session["pending_plan"] = plan.  Each
\* stored plan gets a number of its own, to tell the plans apart.
SetPending(ss, pl) ==
    [ss EXCEPT !.pending_plan = [plan |-> pl, number |-> ss.plans + 1],
               !.plans = @ + 1]
\* session["planned_subtasks"]: None, or a list
Planned(l) == [subtasks |-> l]
\* web.py 553: planned_subtasks and len(planned_subtasks) > 0
HasPlanned(v) == v # NoneValue /\ v.subtasks # <<>>
\* the request has returned its response; its locals are gone
Finish(rq, resp) ==
    [rq EXCEPT !.pc = "done", !.response = resp, !.pending_plan = NoneValue,
               !.planned_subtasks = NoneValue, !.plan = NoneValue]
\* requests arrive in the order of their numbers
MayBegin(r) ==
    /\ req[r].pc = "idle"
    /\ \A q \in Requests : q < r => req[q].pc # "idle"

\* web.py 236-258 / 236-304  chat, up to its await of orchestrator.run
ChatBegin(r) ==
    /\ MayBegin(r)
    /\ \E msg \in RequestMessages :
          LET pending == session.pending_plan
              s1 == [session EXCEPT !.orchestrator = TRUE]
              rq == [req[r] EXCEPT !.kind = "chat", !.msg = msg,
                                   !.pending_plan = pending]
          IN IF pending # NoneValue /\ IsConfirmation(msg)
             THEN /\ session' = [AddMessage(s1, "user:[confirmed]")
                                    EXCEPT !.pending_plan = NoneValue]
                  /\ req' = [req EXCEPT ![r] =
                               [rq EXCEPT !.branch = "confirm",
                                          !.confirmed = pending,
                                          !.pc = "chat_confirm_run"]]
             ELSE /\ session' = AddMessage(s1, "user:" \o msg)
                  /\ req' = [req EXCEPT ![r] =
                               [rq EXCEPT !.branch = "normal",
                                          !.pc = "chat_run"]]
    /\ UNCHANGED <<searchVars, execVars, orchVars, gateVars, synthVars,
                   asmVars, unitVars>>

\* web.py 258-279 with orchestrator.py 61-70 / 167-168: run returns after its
\* assessment; assess_input gives CONFIRM_PLAN or NEED_CLARIFICATION only,
\* for which run returns (plan, None); an exception of run ends at 402-408
ChatConfirmRan(r) ==
    /\ req[r].pc = "chat_confirm_run"
    /\ \E out \in SessionAssessOutcomes :
          req' = [req EXCEPT ![r] =
                    IF out.kind = "raise"
                    THEN [Finish(@, "error") EXCEPT !.failed = TRUE]
                    ELSE Finish(@, "error")]
    /\ UNCHANGED <<session, searchVars, execVars, orchVars, gateVars,
                   synthVars, asmVars, unitVars>>

\* web.py 304-408 with orchestrator.py 61-70 / 167-168
ChatRan(r) ==
    /\ req[r].pc = "chat_run"
    /\ \E out \in SessionAssessOutcomes :
          IF out.kind = "raise"
          THEN /\ req' = [req EXCEPT ![r] =
                            [Finish(@, "error") EXCEPT !.failed = TRUE]]
               /\ session' = session
          ELSE IF out.plan.next_action = "NEED_CLARIFICATION"
          THEN /\ session' = SetPending(AddMessage(session, "assistant:question"),
                                        out.plan)
               /\ req' = [req EXCEPT ![r] =
                            Finish(@, "clarification")]
          ELSE /\ session' = SetPending(AddMessage(session, "assistant:plan"),
                                        out.plan)
               /\ req' = [req EXCEPT ![r] =
                            Finish(@, "confirm_plan")]
    /\ UNCHANGED <<searchVars, execVars, orchVars, gateVars, synthVars,
                   asmVars, unitVars>>

\* web.py 433-481  stream_generator, up to its first yield
StreamBegin(r) ==
    /\ MayBegin(r)
    /\ \E msg \in RequestMessages :
          req' = [req EXCEPT ![r] =
                    [@ EXCEPT !.kind = "stream", !.msg = msg,
                              !.pending_plan = session.pending_plan,
                              !.pc = "stream_session"]]
    /\ UNCHANGED <<session, searchVars, execVars, orchVars, gateVars,
                   synthVars, asmVars, unitVars>>

\* web.py 523-546 / 625-728: the branch on the pending plan read at 458 and
\* the message, up to the next yield
StreamRoute(r, ss) ==
    IF req[r].pending_plan # NoneValue /\ IsConfirmation(req[r].msg)
    THEN \* 537-547
         /\ session' = [AddMessage(ss, "user:" \o req[r].msg)
                           EXCEPT !.pending_plan = NoneValue,
                                  !.planned_subtasks = NoneValue]
         /\ req' = [req EXCEPT ![r] =
                      [@ EXCEPT !.planned_subtasks = ss.planned_subtasks,
                                !.branch = "confirm",
                                !.confirmed = req[r].pending_plan,
                                !.pc = "stream_confirm"]]
    ELSE \* 625-728: an open-ended clarification is answered by any message
         /\ session' =
               IF /\ req[r].pending_plan # NoneValue
                  /\ req[r].pending_plan.plan.clarification = "open"
                  /\ ~IsConfirmation(req[r].msg)
               THEN [AddMessage(ss, "user:" \o req[r].msg)
                        EXCEPT !.pending_plan = NoneValue]
               ELSE AddMessage(ss, "user:" \o req[r].msg)
         /\ req' = [req EXCEPT ![r] =
                      [@ EXCEPT !.branch = "normal", !.pc = "stream_clarifying"]]

\* Variant: a new research task starts from an empty conversation.
StartNewResearchSessionFresh(ss) ==
    [ss EXCEPT !.conversation_mode = "research", !.has_research_result = FALSE,
               !.messages = <<>>]
\* dialog.py 67-77
StartNewResearchSession(ss) ==
    [ss EXCEPT !.conversation_mode = "research", !.has_research_result = FALSE]

\* web.py 491-503 (then 523-728 where 498 does not hold)
StreamResumed(r) ==
    /\ req[r].pc = "stream_session"
    /\ IF session.conversation_mode = "chat" /\ IsNewResearchTask(req[r].msg)
       THEN /\ session' = StartNewResearchSession(session)
            /\ req' = [req EXCEPT ![r] = [@ EXCEPT !.pc = "stream_new_research"]]
       ELSE StreamRoute(r, session)
    /\ UNCHANGED <<searchVars, execVars, orchVars, gateVars, synthVars,
                   asmVars, unitVars>>

\* web.py 503-728 after the yield of 502
StreamNewResearch(r) ==
    /\ req[r].pc = "stream_new_research"
    /\ StreamRoute(r, session)
    /\ UNCHANGED <<searchVars, execVars, orchVars, gateVars, synthVars,
                   asmVars, unitVars>>

\* web.py 550-568 / 608-614: build_model, then the planned subtasks are
\* dispatched, or Orchestrator.run is awaited
StreamConfirmExec(r) ==
    /\ req[r].pc = "stream_confirm"
    /\ \E built \in BOOLEAN :
          req' = [req EXCEPT ![r] =
                    IF ~built
                    THEN [Finish(@, "error") EXCEPT !.failed = TRUE]
                    ELSE IF HasPlanned(@.planned_subtasks)
                    THEN [@ EXCEPT !.pc = "stream_gather"]
                    ELSE [@ EXCEPT !.pc = "stream_orch_run"]]
    /\ UNCHANGED <<session, searchVars, execVars, orchVars, gateVars,
                   synthVars, asmVars, unitVars>>

\* web.py 568-586 with executor.py 19-46: what run_concurrent_tasks returns
\* for the planned subtasks l under the environments es, filtered at 573
SessionSubtaskResults(l, es) ==
    KeptResults([p \in DOMAIN l |-> ExecuteSingleReturn(Search(l[p], es[p]))])

\* web.py 568-586: the gather returns; the results are filtered
StreamGathered(r) ==
    /\ req[r].pc = "stream_gather"
    /\ LET l == req[r].planned_subtasks.subtasks
       IN \E es \in [DOMAIN l -> SessionTaskEnvs] :
             LET kept == SessionSubtaskResults(l, es)
                 fail == \E p \in DOMAIN l : ~es[p].build
             IN req' = [req EXCEPT ![r] =
                          IF kept = <<>>
                          THEN [Finish(@, "error") EXCEPT !.failed = TRUE]
                          ELSE [@ EXCEPT !.pc = "stream_synth",
                                         !.result = Planned(kept),
                                         !.failed = fail]]
    /\ UNCHANGED <<session, searchVars, execVars, orchVars, gateVars,
                   synthVars, asmVars, unitVars>>

\* web.py 586-605: synthesize_results returns or raises
StreamSynthesized(r) ==
    /\ req[r].pc = "stream_synth"
    /\ \E ok \in BOOLEAN :
          IF ok
          THEN /\ session' =
                     [AddMessage(session, "assistant:done")
                         EXCEPT !.conversation_mode = "chat",
                                !.has_research_result = TRUE]
               /\ req' = [req EXCEPT ![r] =
                            [Finish(@, "research_result") EXCEPT
                                !.result =
                                    ResearchResult(
                                        req[r].pending_plan.plan.research_focus,
                                        req[r].result.subtasks)]]
          ELSE /\ session' = session
               /\ req' = [req EXCEPT ![r] =
                            [Finish(@, "error") EXCEPT !.result = NoneValue,
                                                       !.failed = TRUE]]
    /\ UNCHANGED <<searchVars, execVars, orchVars, gateVars, synthVars,
                   asmVars, unitVars>>

\* web.py 609-621 with orchestrator.py 61-70 / 167-168
StreamOrchRan(r) ==
    /\ req[r].pc = "stream_orch_run"
    /\ \E out \in SessionAssessOutcomes :
          req' = [req EXCEPT ![r] =
                    IF out.kind = "raise"
                    THEN [Finish(@, "error") EXCEPT !.failed = TRUE]
                    ELSE Finish(@, "error")]
    /\ UNCHANGED <<session, searchVars, execVars, orchVars, gateVars,
                   synthVars, asmVars, unitVars>>

\* web.py 728-757: build_model, then assess_input is awaited
StreamAssessCall(r) ==
    /\ req[r].pc = "stream_clarifying"
    /\ \E built \in BOOLEAN :
          req' = [req EXCEPT ![r] =
                    IF ~built
                    THEN [Finish(@, "error") EXCEPT !.failed = TRUE]
                    ELSE [@ EXCEPT !.pc = "stream_assess"]]
    /\ UNCHANGED <<session, searchVars, execVars, orchVars, gateVars,
                   synthVars, asmVars, unitVars>>

\* web.py 757-778: the assessment; a clarification is shown, or the planner
\* is awaited
StreamAssessed(r) ==
    /\ req[r].pc = "stream_assess"
    /\ \E out \in SessionAssessOutcomes :
          IF out.kind = "raise"
          THEN /\ req' = [req EXCEPT ![r] =
                            [Finish(@, "error") EXCEPT !.failed = TRUE]]
               /\ session' = session
          ELSE IF out.plan.next_action = "NEED_CLARIFICATION"
          THEN /\ session' = SetPending(AddMessage(session, "assistant:question"),
                                        out.plan)
               /\ req' = [req EXCEPT ![r] =
                            Finish(@, "clarification")]
          ELSE /\ session' = session
               /\ req' = [req EXCEPT ![r] =
                            [@ EXCEPT !.plan = out.plan, !.pc = "stream_planning"]]
    /\ UNCHANGED <<searchVars, execVars, orchVars, gateVars, synthVars,
                   asmVars, unitVars>>

\* web.py 778-809: decompose_task returns or raises; the plan is stored.
\* for_plan notes the number of the plan the list was made for (the number
\* SetPending gives the plan stored with it).
StreamPlanned(r) ==
    /\ req[r].pc = "stream_planning"
    /\ \E out \in SessionPlannerOutcomes :
          LET s1 == IF out.kind = "raise" THEN session
                    ELSE [session EXCEPT !.planned_subtasks =
                            [subtasks |->
                                 IF out.subtasks # <<>> THEN out.subtasks
                                 ELSE FallbackSubtasks(
                                         req[r].plan.research_focus),
                             for_plan |-> session.plans + 1]]
          IN /\ session' = SetPending(AddMessage(s1, "assistant:plan"),
                                      req[r].plan)
             /\ req' = [req EXCEPT ![r] =
                          [Finish(@, "confirm_plan") EXCEPT
                              !.failed = (out.kind = "raise")]]
    /\ UNCHANGED <<searchVars, execVars, orchVars, gateVars, synthVars,
                   asmVars, unitVars>>

\* ------------------------------------------- one enhanced_research_tool call
\* every component above, unused
BaseIdle ==
    /\ SearchIdle /\ ExecIdle /\ OrchIdle /\ WebIdle /\ GateIdle
    /\ SynthIdle /\ AsmIdle

\* What the collaborators of one tool call do:
\*   research  tool.smart_research: it returns, it raises, or it is still
\*             running at the deadline of 20 s ("late")
\*   fallback  web_search in the handler of 325-348: it returns before that
\*             deadline, returns after it ("slow"), raises, or never returns
\*   conf      the confidence smart_research reports (hundredths)
\*   nsrc      the number of sources it reports
ToolEnvs ==
    [research : {"returns", "raises", "late"},
     fallback : {"returns", "slow", "raises", "never"},
     conf : {30, 69, 70, 95}, nsrc : 0..1]
NoToolOutput == [kind |-> "none"]
\* subagent.py 258-268: the synthetic result of the handler of the deadline
TimeoutResult ==
    [kind |-> "timeout", nsources |-> 0, confidence |-> 30,
     should_stop |-> "true", late |-> FALSE]
\* subagent.py 270-296: the structured output of a finished smart_research
ResearchOutput(e) ==
    [kind |-> "research", nsources |-> e.nsrc, confidence |-> e.conf,
     should_stop |-> IF e.conf >= 70 THEN "true" ELSE "false", late |-> FALSE]
\* subagent.py 336-344: fallback_output; it has no should_stop key.  late:
\* whether the 20 s had passed when it was returned
FallbackOutput(late) ==
    [kind |-> "fallback", nsources |-> 0, confidence |-> 30,
     should_stop |-> "absent", late |-> late]
\* subagent.py 347-348
EmptyOutput ==
    [kind |-> "empty", nsources |-> 0, confidence |-> 0,
     should_stop |-> "absent", late |-> FALSE]

ToolIdle ==
    /\ tenv = [research |-> "returns", fallback |-> "returns", conf |-> 30,
               nsrc |-> 0]
    /\ tpc = "unused"
    /\ tret = NoToolOutput

ToolInit ==
    /\ tenv \in ToolEnvs
    /\ tpc = "idle"
    /\ tret = NoToolOutput

\* subagent.py 179-251: the call, up to the await of smart_research under
\* the deadline
ToolCall ==
    /\ tpc = "idle"
    /\ tpc' = "research"
    /\ UNCHANGED <<tenv, tret, mgrVars, confVars, planVars, dlgVars,
                   baseVars>>

\* subagent.py 244-329: smart_research returns, or the deadline fires and
\* the timeout result is returned, or it raises and the handler of 325
\* awaits web_search, under no deadline
ToolResearchDone ==
    /\ tpc = "research"
    /\ CASE tenv.research = "returns" ->
              tret' = ResearchOutput(tenv) /\ tpc' = "returned"
         [] tenv.research = "late" ->
              tret' = TimeoutResult /\ tpc' = "returned"
         [] OTHER ->
              tret' = tret /\ tpc' = "fallback"
    /\ UNCHANGED <<tenv, mgrVars, confVars, planVars, dlgVars,
                   baseVars>>

\* subagent.py 329-348: web_search returns, raises into the bare except of
\* 347, or never returns
ToolFallbackDone ==
    /\ tpc = "fallback"
    /\ CASE tenv.fallback = "returns" ->
              tret' = FallbackOutput(FALSE) /\ tpc' = "returned"
         [] tenv.fallback = "slow" ->
              tret' = FallbackOutput(TRUE) /\ tpc' = "returned"
         [] tenv.fallback = "raises" ->
              tret' = EmptyOutput /\ tpc' = "returned"
         [] OTHER ->
              tret' = tret /\ tpc' = "hung"
    /\ UNCHANGED <<tenv, mgrVars, confVars, planVars, dlgVars,
                   baseVars>>

\* ------------------------------------------------ a ConcurrencyManager alone
\* most requests recorded by one manager
MaxRecorded == 20
\* config.py 49: MAX_CONCURRENT_REQUESTS is read from the environment
ConfiguredLimits == {1, MaxConcurrentRequests, 8, 12}

MgrIdle ==
    /\ mgr = NewConcurrencyManager
    /\ mgrRecent = 0
    /\ mgrTiming = [passed |-> FALSE, avg |-> "mid"]

\* concurrency_manager.py 149 with 10-18: the global instance, for a
\* configured MAX_CONCURRENT_REQUESTS
MgrInit ==
    /\ mgr \in { [NewConcurrencyManager EXCEPT !.max_concurrent = l] :
                     l \in ConfiguredLimits }
    /\ mgrRecent = 0
    /\ mgrTiming = [passed |-> FALSE, avg |-> "mid"]

\* concurrency_manager.py 28-86 as called at 105 and 109: one request is
\* recorded
MgrRecord ==
    /\ mgr.total_requests < MaxRecorded
    /\ \E success \in BOOLEAN :
       \E t \in (IF (mgr.total_requests + 1) % 10 = 0 THEN TimingInputs
                 ELSE {[passed |-> FALSE, avg |-> "mid"]}) :
          /\ mgr' = RecordRequest(mgr, success, t)
          /\ mgrTiming' = t
          /\ mgrRecent' = (IF mgr.total_requests % 10 = 0 THEN 0 ELSE mgrRecent)
                              + (IF success THEN 0 ELSE 1)
    /\ UNCHANGED <<toolVars, confVars, planVars, dlgVars,
                   baseVars>>

\* --------------------------------------------- one _calculate_confidence call
\* most sources and most deeply read sources given to one call
MaxConfSources == 4
MaxEnhanced == 2
\* config.py 55-56: LLM_CONFIDENCE_WEIGHT, in hundredths
LlmConfidenceWeight == 40
\* enhanced_research.py 443-453: scenario_weights, in hundredths
ScenarioWeights == {70, 75, 80, 85, 90}
\* what _llm_evaluate_confidence meets: building the prompt raises (a source
\* whose snippet is None, 521-524), the model call fails, its reply cannot
\* be parsed, or the reply holds overall_confidence (hundredths)
LlmOutcomes ==
    {[kind |-> "raises"], [kind |-> "fails"], [kind |-> "unparsable"]} \cup
    { [kind |-> "value", value |-> v] : v \in {0, 50, 90, 150} }
ConfInputs ==
    [weight : ScenarioWeights, nsources : 0..MaxConfSources,
     enhanced : 0..MaxEnhanced, llm_enabled : BOOLEAN, has_query : BOOLEAN,
     llm : LlmOutcomes]
\* enhanced_research.py 432-455: rule_confidence, in ten-thousandths
RuleConfidence(in) ==
    (50 + Min(in.nsources * 10, 30) + Min(in.enhanced * 15, 30)) * in.weight
\* enhanced_research.py 514-636: what _llm_evaluate_confidence returns, in
\* hundredths: the model's value clamped to [0, 1], or 0.5 when the call
\* failed or the reply could not be parsed
LlmEvaluateConfidence(o) ==
    IF o.kind = "value" THEN Max(0, Min(100, o.value)) ELSE 50
\* enhanced_research.py 416-512: final_confidence, in millionths
CalculateConfidence(in) ==
    LET rule == RuleConfidence(in)
        final ==
            IF in.llm_enabled /\ in.has_query /\ in.nsources > 0
                    /\ in.llm.kind # "raises"
            THEN rule * (100 - LlmConfidenceWeight)
                     + LlmEvaluateConfidence(in.llm) * 100 * LlmConfidenceWeight
            ELSE rule * 100
    IN  Min(final, 950000)

ConfIdle ==
    /\ cin = NoneValue
    /\ cpc = "unused"
    /\ cout = NoneValue

ConfInit ==
    /\ cin \in ConfInputs
    /\ cpc = "call"
    /\ cout = NoneValue

\* enhanced_research.py 416-512
ConfCalculate ==
    /\ cpc = "call"
    /\ cout' = [confidence |-> CalculateConfidence(cin)]
    /\ cpc' = "returned"
    /\ UNCHANGED <<cin, toolVars, mgrVars, planVars, dlgVars,
                   baseVars>>

\* ---------------------------------------------- one create_research_plan call
\* most search results given to one call
MaxPlanResults == 3
\* intelligent_research.py 165-203: the priorities should_use_jina returns
\* (0 with should_use False; 2, 4 or 5 with should_use True)
JinaPriorities == {0, 2, 4, 5}
PlanInputs ==
    [priorities : SeqsUpTo(JinaPriorities, MaxPlanResults),
     max_results : {6, 12, 18}]
\* intelligent_research.py 230-253: the results kept as deep-fetch
\* candidates, each with its 1-based rank
JinaCandidates(in) ==
    LET analysis_limit ==
            Min(Len(in.priorities), Max(in.max_results, 15))
    IN  { [priority |-> in.priorities[i], rank |-> i] :
            i \in { j \in 1..analysis_limit : in.priorities[j] >= 2 } }
\* intelligent_research.py 259-264: max_jina_targets
MaxJinaTargets(in) ==
    IF in.max_results <= 8 THEN Min(0, Cardinality(JinaCandidates(in)))
    ELSE IF in.max_results <= 15 THEN Min(0, Cardinality(JinaCandidates(in)))
    ELSE Min(0, Cardinality(JinaCandidates(in)))
\* intelligent_research.py 269: key=lambda x: (x['priority'], -x['rank'])
SortKeyBefore(a, b) ==
    \/ a.priority < b.priority
    \/ a.priority = b.priority /\ a.rank > b.rank
\* sorted(...): the elements of S in ascending order of the key
Sorted(S, Before(_, _)) ==
    CHOOSE q \in [1..Cardinality(S) -> S] :
        \A i, j \in 1..Cardinality(S) : i < j => Before(q[i], q[j])
\* intelligent_research.py 267-270: plan['jina_targets']
JinaTargets(in) ==
    SubSeq(Sorted(JinaCandidates(in), SortKeyBefore), 1, MaxJinaTargets(in))

PlanInit ==
    /\ pin \in PlanInputs
    /\ ppc = "call"
    /\ pout = <<>>

\* intelligent_research.py 205-275
PlanCreate ==
    /\ ppc = "call"
    /\ pout' = JinaTargets(pin)
    /\ ppc' = "returned"
    /\ UNCHANGED <<pin, toolVars, mgrVars, confVars, dlgVars,
                   baseVars>>

PlanIdle ==
    /\ pin = NoneValue
    /\ ppc = "unused"
    /\ pout = <<>>

\* ------------------------------------------------------ one streamed request
\* message classes: a plain message, a new research request ("请调研 ..."),
\* a confirming reply ("ok"), a plan modification ("修改计划: ..."), a
\* follow-up question ("为什么?"), the choice of an offered option ("1")
StreamMessages == {"plain", "research", "confirm", "modify", "followup", "option"}
\* web.py 523
IsModification(msg) == msg = "modify"
\* dialog.py 82-116, for a session in chat mode that holds a research result
IsFollowupQuestion(msg) == msg = "followup"
\* web.py 213-228, for a clarification that offers options
IsOptionSelection(msg) == msg = "option"
\* schema.py 12-14: the keys of Task.model_dump()
TaskKeys == {"goal", "research_focus"}
\* the task draft keys that hold what the user supplied
UserKeys == {"project_info", "clarification_responses", "modification_notes"}
\* clarifier.py 145-153: clarification["missing_info"]
MissingInfos == {"project_details", "research_topic", "research_focus", "budget"}
\* clarifier.py 96-166: the plans assess_input returns, as far as the routing
\* reads them (clarification: no question, an open one, one with options)
DialogPlans ==
    { pl \in [next_action : {"NEED_CLARIFICATION", "CONFIRM_PLAN"},
              clarification : {"none", "open", "options"},
              missing_info : MissingInfos \cup {"none"}] :
        (pl.clarification = "none") <=> (pl.missing_info = "none") }
\* the messages of earlier requests
EarlierMessages ==
    << [role |-> "user", content |-> "earlier"],
       [role |-> "assistant", content |-> "earlier"] >>
\* web.py 51-55, dialog.py 5-11: the sessions a request can find.  A pending
\* plan was stored right after update_task_draft (762-766, 771-808); the
\* research result and the chat mode are set and reset together (dialog.py
\* 27-30, 67-77).
DialogStates ==
    { [messages |-> <<>>, task_draft |-> {}, pending_plan |-> NoneValue,
       conversation_mode |-> "research"] } \cup
    { [messages |-> EarlierMessages, task_draft |-> TaskKeys \cup ks,
       pending_plan |-> NoneValue, conversation_mode |-> m] :
        ks \in SUBSET UserKeys, m \in {"research", "chat"} } \cup
    { [messages |-> EarlierMessages, task_draft |-> TaskKeys,
       pending_plan |-> pl, conversation_mode |-> m] :
        pl \in DialogPlans, m \in {"research", "chat"} }

\* dialog.py 13-14
AddUser(ds, text) ==
    [ds EXCEPT !.messages = Append(@, [role |-> "user", content |-> text])]
\* dialog.py 22-24
AddAssistant(ds, text) ==
    [ds EXCEPT !.messages = Append(@, [role |-> "assistant", content |-> text])]
\* dialog.py 19-20 with plan.task.model_dump()
UpdateTaskDraft(ds) == [ds EXCEPT !.task_draft = TaskKeys]
\* dialog.py 67-77
StartNewResearch(ds) ==
    [ds EXCEPT !.conversation_mode = "research", !.task_draft = {}]
\* web.py 657-673: the keys an open-ended answer writes
AnswerKeys(missing_info) ==
    IF missing_info = "project_details" THEN {"project_info", "goal"}
    ELSE IF missing_info = "research_topic" THEN {"goal"}
    ELSE {"clarification_responses"}
\* web.py 706-711: the keys the choice of an option writes
OptionKeys(missing_info) ==
    IF missing_info = "research_topic" THEN {"goal"}
    ELSE IF missing_info = "research_focus" THEN {"research_focus"}
    ELSE {}

DlgIdle ==
    /\ dstate = NoneValue
    /\ dreq = NoneValue
DlgInit ==
    /\ dstate \in DialogStates
    /\ dreq \in [msg : StreamMessages, pc : {"begin"}, response : {"none"}]

\* web.py 523-724: the branches on the pending plan read at 458 and on the
\* message, up to the yield of 546 or the sleep of 728
DlgRoute(ds, rq) ==
    LET pending == ds.pending_plan
        modified == pending # NoneValue /\ IsModification(rq.msg)
        \* 523-534
        s1 == IF modified
              THEN [AddUser(ds, "[modify]") EXCEPT
                       !.pending_plan = NoneValue,
                       !.task_draft = @ \cup {"modification_notes"}]
              ELSE ds
        user_message == IF modified THEN "modification" ELSE rq.msg
        \* 625
        answering == /\ pending # NoneValue
                     /\ pending.clarification # "none"
                     /\ ~IsConfirmation(user_message)
        \* 649-724
        s2 == IF answering /\ pending.clarification = "open"
              THEN [AddUser(s1, user_message) EXCEPT
                       !.pending_plan = NoneValue,
                       !.task_draft = @ \cup AnswerKeys(pending.missing_info)]
              ELSE IF answering /\ IsOptionSelection(user_message)
              THEN [AddUser(s1, "selected") EXCEPT
                       !.pending_plan = NoneValue,
                       !.task_draft = @ \cup OptionKeys(pending.missing_info)]
              ELSE AddUser(s1, user_message)
    IN  IF ~modified /\ pending # NoneValue /\ IsConfirmation(rq.msg)
        THEN \* 537-546: the research of the confirmed plan follows
             /\ dstate' = [AddUser(ds, rq.msg) EXCEPT !.pending_plan = NoneValue]
             /\ dreq' = [rq EXCEPT !.pc = "executing"]
        ELSE /\ dstate' = s2
             /\ dreq' = [rq EXCEPT !.pc = "clarifying"]

\* web.py 483-520, then 523-728 where neither 498 nor 507 holds
DlgBegin ==
    /\ dreq.pc = "begin"
    /\ IF dstate.conversation_mode = "chat" /\ IsNewResearchTask(dreq.msg)
       THEN /\ dstate' = StartNewResearch(dstate)
            /\ dreq' = [dreq EXCEPT !.pc = "new_research"]
       ELSE IF dstate.conversation_mode = "chat" /\ IsFollowupQuestion(dreq.msg)
       THEN /\ dstate' = AddUser(dstate, dreq.msg)
            /\ dreq' = [dreq EXCEPT !.pc = "simple_chat"]
       ELSE DlgRoute(dstate, dreq)
    /\ UNCHANGED <<toolVars, mgrVars, confVars, planVars, baseVars>>

\* web.py 503-728 after the yield of 502
DlgNewResearch ==
    /\ dreq.pc = "new_research"
    /\ DlgRoute(dstate, dreq)
    /\ UNCHANGED <<toolVars, mgrVars, confVars, planVars, baseVars>>

\* web.py 511-520 with 931-970: handle_simple_chat returns its answer (or the
\* text of the model's error), or raises where build_model does (936); the
\* request then goes on at 523
DlgSimpleChat ==
    /\ dreq.pc = "simple_chat"
    /\ \E answered \in BOOLEAN :
          IF answered
          THEN /\ dstate' = AddAssistant(dstate, "answer")
               /\ dreq' = [dreq EXCEPT !.pc = "done", !.response = "simple_chat"]
          ELSE DlgRoute(dstate, dreq)
    /\ UNCHANGED <<toolVars, mgrVars, confVars, planVars, baseVars>>

\* web.py 728-757: build_model, then assess_input is awaited
DlgAssessCall ==
    /\ dreq.pc = "clarifying"
    /\ \E built \in BOOLEAN :
          dreq' = IF built THEN [dreq EXCEPT !.pc = "assess"]
                  ELSE [dreq EXCEPT !.pc = "done", !.response = "error"]
    /\ UNCHANGED <<dstate, toolVars, mgrVars, confVars, planVars, baseVars>>

\* web.py 757-773: assess_input returns or raises; the task draft is
\* replaced; a clarification is shown, or the planner is awaited
DlgAssessed ==
    /\ dreq.pc = "assess"
    /\ \E out \in {NoneValue} \cup DialogPlans :
          IF out = NoneValue
          THEN /\ dstate' = dstate
               /\ dreq' = [dreq EXCEPT !.pc = "done", !.response = "error"]
          ELSE IF out.next_action = "NEED_CLARIFICATION"
          THEN /\ dstate' = [AddAssistant(UpdateTaskDraft(dstate), "question")
                                EXCEPT !.pending_plan = out]
               /\ dreq' = [dreq EXCEPT !.pc = "done",
                                       !.response = "clarification"]
          ELSE /\ dstate' = [UpdateTaskDraft(dstate)
                                EXCEPT !.pending_plan = out]
               /\ dreq' = [dreq EXCEPT !.pc = "planning"]
    /\ UNCHANGED <<toolVars, mgrVars, confVars, planVars, baseVars>>

\* web.py 773-809: decompose_task returns or raises; the plan is shown
DlgPlanned ==
    /\ dreq.pc = "planning"
    /\ dstate' = AddAssistant(dstate, "plan")
    /\ dreq' = [dreq EXCEPT !.pc = "done", !.response = "confirm_plan"]
    /\ UNCHANGED <<toolVars, mgrVars, confVars, planVars, baseVars>>

UnitsIdle == ToolIdle /\ MgrIdle /\ ConfIdle /\ PlanIdle /\ DlgIdle

\* ------------------------------------------------------------------ claims
\* C2 (refuted): Subagent.search never raises; on every failure path it
\* returns a SubtaskResult carrying the subtask's id and focus with a
\* confidence between 0.0 and 0.5.  Stated here for the calls whose run does
\* not end with the model's own JSON.
C2_SearchNeverRaises ==
    (spc # "ready" /\ (~env.build \/ env.run # "final_json")) =>
        /\ spc = "returned"
        /\ sret.kind = "result"
        /\ sret.value.subtask_id = subtask.id
        /\ sret.value.focus = subtask.focus
        /\ sret.value.confidence \in 0..50

\* C10 (refuted): a run still in progress at the soft-exit deadline is
\* cancelled, the cancellation is awaited, and search returns a placeholder
\* with confidence 0.5 and no sources.
C10_SoftExitPlaceholder ==
    (spc # "ready" /\ env.build /\ env.run = "pending"
        /\ env.cancel = "cancelled") =>
        /\ sret.kind = "result"
        /\ sret.runnerTask = "cancelled"
        /\ sret.value.confidence = 50
        /\ sret.value.nsources = 0

\* C11 (refuted): with the soft-exit deadline shorter than the hard
\* timeout the soft exit fires first: a run still in progress at the soft-exit
\* deadline is cancelled there, and the hard-timeout placeholder (confidence
\* 0.3) is returned only for a run that was still in progress at the
\* soft-exit deadline and whose cancellation did not complete in time.
C11_SoftExitFiresFirst ==
    (spc # "ready" /\ env.build) =>
        /\ env.run = "pending" => sret.runnerTask # "none"
        /\ (sret.kind = "result" /\ sret.value.confidence = 30) =>
              (env.run = "pending" /\ env.cancel \in {"late", "never"})

\* C12 (refuted): an agent run that exceeds max_turns (at once when
\* MAX_AGENT_TURNS is 0) is not an error: search returns the max-turns
\* placeholder with confidence 0.5, not the 0.0 placeholder, not an exception.
C12_MaxTurnsIsNotAnError ==
    (spc # "ready" /\ env.build /\ env.run = "max_turns") =>
        /\ spc = "returned"
        /\ sret.kind = "result"
        /\ sret.value = MaxTurnsPlaceholder(subtask)
        /\ sret.value.confidence = 50

\* C13 (refuted): every call of search that has left READY has returned, in
\* exactly one of DONE, SOFT_EXIT, HARD_TIMEOUT, MAX_TURNS and ERROR; no call
\* ends with an exception and none stays suspended.
C13_SearchEndsInOneTerminalState ==
    spc # "ready" =>
        /\ spc = "returned"
        /\ sret.kind = "result"
        /\ sret.value.findings \in
              {"parsed", "soft_exit", "timeout", "max_turns", "failed"}

\* C1: execute_parallel returns exactly one entry per input subtask, in input
\* order: entry p is the result of subtask p (same id and focus), or None
\* where that worker raised; batched or not.
C1_OneEntryPerSubtaskInOrder ==
    (path = "pool" /\ dpc = "returned") =>
        /\ Len(results) = Len(subtasks)
        /\ \A p \in Positions :
              IF tout[p].kind = "raise"
              THEN results[p] = NoneValue
              ELSE /\ tout[p].kind = "result"
                   /\ results[p] = tout[p].value
                   /\ results[p].subtask_id = subtasks[p].id
                   /\ results[p].focus = subtasks[p].focus
\* a batched call (3 subtasks, 2 at a time) with a raising worker has returned
C1_Witness ==
    /\ path = "pool" /\ dpc = "returned"
    /\ Len(subtasks) = 3 /\ numParallel = 2
    /\ tout[1].kind = "raise" /\ tout[3].kind = "result"

\* C6: a worker's exception never cancels or aborts another worker: the
\* dispatch never ends with an exception, and once it has returned every
\* subtask has run and every result that a worker returned is kept at its
\* position (and, on the web path, in the list given to the synthesizer).
C6_FailureDoesNotAbortOthers ==
    /\ dpc # "raised"
    /\ (dpc = "returned" /\ \E q \in Positions : tout[q].kind = "raise") =>
          \A p \in Positions :
              /\ tstate[p] = "done"
              /\ tout[p].kind = "result" =>
                    /\ results[p] = tout[p].value
                    /\ path = "web" =>
                          \E k \in DOMAIN subtaskResults :
                              subtaskResults[k] = tout[p].value
\* a worker of the first batch raised, one of the same batch and one of the
\* next batch returned, and the pool has returned
C6_Witness ==
    /\ path = "pool" /\ dpc = "returned"
    /\ Len(subtasks) = 3 /\ numParallel = 2
    /\ tout[1].kind = "raise"
    /\ tout[2].kind = "result" /\ tout[3].kind = "result"
    /\ results[2] = tout[2].value /\ results[3] = tout[3].value

\* C7: within one execute_parallel call at most max_parallel searches are in
\* flight; the subtasks run in consecutive batches of at most max_parallel,
\* and no task of a batch is started before every task of the earlier
\* batches is done.
C7_AtMostMaxParallelInFlight ==
    path = "pool" =>
        LET mp == EffectiveMaxParallel(argMaxParallel, selfMaxParallel)
        IN /\ Cardinality(InFlight(tstate)) <= mp
           /\ peakInFlight <= mp
           /\ \A p, q \in Positions :
                 ((q - 1) \div mp < (p - 1) \div mp /\ tstate[p] # "new")
                     => tstate[q] = "done"
\* the second batch of a call with 3 subtasks and max_parallel 2 is in flight
C7_Witness ==
    /\ path = "pool" /\ Len(subtasks) = 3 /\ argMaxParallel = 2
    /\ tstate = <<"done", "done", "scheduled">>
    /\ peakInFlight = 2

\* C15 (refuted): when a subtask of three given to the pool fails in its
\* worker, the result list still has three entries, the failed position holds
\* a placeholder SubtaskResult with confidence 0.0 (not None), and every
\* other position holds what its worker returned.
C15_FailedPositionHoldsPlaceholder ==
    (path = "pool" /\ dpc = "returned" /\ Len(subtasks) = 3) =>
        /\ Len(results) = 3
        /\ \A p \in Positions :
              IF tout[p].kind = "raise"
                  \/ tout[p].value = ErrorPlaceholder(subtasks[p])
              THEN /\ results[p] # NoneValue
                   /\ results[p].confidence = 0
                   /\ results[p].subtask_id = subtasks[p].id
              ELSE results[p] = tout[p].value

\* C8 (refuted): subtasks in flight at the same time are served by distinct
\* worker instances, on the pool path and on the web path.
C8_ConcurrentSubtasksOnDistinctWorkers ==
    \A p, q \in Positions :
        (p # q /\ tstate[p] = "scheduled" /\ tstate[q] = "scheduled")
            => tworker[p] # tworker[q]

\* C3 (refuted): Orchestrator.run never raises: whatever fails (the clarifier
\* on its first or a repeated assessment, the topic search, the planner, the
\* workers, the synthesizer), the call returns a pair (plan, result or None).
C3_RunNeverRaises ==
    /\ opc # "raised"
    /\ opc = "returned" => oret.plan = oplan

C16_OnlyStartResearchRuns ==
    /\ (oplan.next_action \in {"NEED_CLARIFICATION", "CONFIRM_PLAN", "CANNOT_DO"}
            /\ opc \notin {"assess1", "assess2", "topic_search"}) =>
          /\ opc = "returned"
          /\ oret = [plan |-> oplan, result |-> NoneValue]
          /\ progress = <<>>
          /\ subtasks = <<>>
          /\ ~singleAgent
          /\ peakInFlight = 0
    /\ oret.result # NoneValue => oplan.next_action = "START_RESEARCH"
\* run has returned (plan, None) for a CONFIRM_PLAN plan that followed a
\* topic search
C16_Witness ==
    /\ opc = "returned"
    /\ oplan.next_action = "CONFIRM_PLAN"
    /\ oappended = 1
    /\ oret = [plan |-> oplan, result |-> NoneValue]

\* C17: the stages of one run are reported in the order planning, searching,
\* synthesizing, complete: none after a later one, complete only right after
\* synthesizing, nothing after complete or error, never both of them.
C17_StagesInCausalOrder ==
    LET Rank(st) == CASE st = "planning" -> 1
                      [] st = "searching" -> 2
                      [] st = "synthesizing" -> 3
                      [] st = "complete" -> 4
                      [] OTHER -> 5
    IN \A i \in DOMAIN progress :
          /\ \A j \in DOMAIN progress :
                i < j => Rank(progress[i]) <= Rank(progress[j])
          /\ progress[i] \in {"complete", "error"} => i = Len(progress)
          /\ progress[i] = "complete" =>
                (i > 1 /\ progress[i - 1] = "synthesizing")
\* a run over two subtasks has reported every stage up to complete
C17_Witness ==
    /\ opc = "returned"
    /\ Len(subtasks) = 2
    /\ progress = <<"planning", "planning", "searching", "searching",
                    "searching", "synthesizing", "complete">>

\* C4 (refuted): after a CONFIRM_PLAN, a confirming reply runs the planned
\* subtasks and the request returns a research result with at least one
\* research focus filled, on POST /chat as on the streaming endpoint.  Stated
\* for the requests none of whose collaborators failed.
C4_ConfirmationRunsResearch ==
    \A r \in DOMAIN req :
        (/\ req[r].pc = "done"
         /\ req[r].branch = "confirm"
         /\ req[r].confirmed.plan.next_action = "CONFIRM_PLAN"
         /\ ~req[r].failed) =>
            /\ req[r].response = "research_result"
            /\ req[r].result # NoneValue
            /\ DOMAIN req[r].result.findings # {}

\* C5 (refuted): two requests on one session never interleave (the second
\* waits until the first has finished), and two confirmations never both
\* take the confirmation branch for the same pending plan.
C5_RequestsDoNotInterleave ==
    /\ Cardinality({ r \in DOMAIN req : req[r].pc \notin {"idle", "done"} }) <= 1
    /\ \A r1, r2 \in DOMAIN req :
          (r1 # r2 /\ req[r1].branch = "confirm" /\ req[r2].branch = "confirm")
              => req[r1].confirmed.number # req[r2].confirmed.number

C19_ClarificationHasQuestion ==
    (gpc = "returned" /\ gplan.next_action = "NEED_CLARIFICATION") =>
        gplan.clarification \notin {"none", "blank"}

\* C20 (refuted): when the model's action is REJECT, the Plan returned by
\* assess_input has next_action CANNOT_DO.
C20_RejectGivesCannotDo ==
    (gpc = "returned" /\ gresult.action = "REJECT") =>
        gplan.next_action = "CANNOT_DO"

\* C21: when the model's reply cannot be parsed as JSON or names an unknown
\* action, assess_input does not raise: it returns a NEED_CLARIFICATION plan
\* of confidence 0.0 whose clarification is the generic open-ended question
\* (a question text, no options).
C21_UnparsableReplyAsksOpenQuestion ==
    (/\ gpc \notin {"idle", "llm", "raised_llm"}
     /\ (~gresp.parses \/ gresp.action = "other")) =>
        /\ gpc = "returned"
        /\ gplan.next_action = "NEED_CLARIFICATION"
        /\ gplan.confidence = 0
        /\ gplan.clarification = "open"
\* a reply naming an unknown action has been answered with the fallback plan
C21_Witness ==
    /\ gpc = "returned"
    /\ gresp.parses
    /\ gresp.action = "other"
    /\ gplan.next_action = "NEED_CLARIFICATION"
    /\ gplan.clarification = "open"

\* C22 (refuted): when the user's input speaks of the user's own project
\* without naming it, the returned plan is NEED_CLARIFICATION with an
\* open-ended question, whatever action the model replied with.
C22_PrivateReferenceForcesClarification ==
    (gpc = "returned" /\ PreAnalyze(ginput).has_private_info) =>
        /\ gplan.next_action = "NEED_CLARIFICATION"
        /\ gplan.clarification = "open"

C31_MaxTurnsKeepsCollected ==
    (spc = "returned" /\ env.run = "max_turns" /\ env.collected > 0) =>
        /\ sret.kind = "result"
        /\ sret.value.nsources >= env.collected

C32_ToolReturnsUnderDeadline ==
    /\ tpc \notin {"hung", "raised"}
    /\ (/\ tpc = "returned"
        /\ \/ tenv.research = "late"
           \/ tenv.research = "raises" /\ tenv.fallback \in {"slow", "never"}) =>
          tret = TimeoutResult

\* C34: the concurrency limit of the manager is between 1 and 8, whatever
\* limit was configured and whatever was recorded.
C34_LimitBetweenOneAndEight ==
    mgr.total_requests > 0 => (1 <= mgr.max_concurrent /\ mgr.max_concurrent <= 8)

\* C35: an adjustment is decided from the ten most recent requests only: the
\* limit goes down by one (not below 1) when more than 10% of them failed or
\* their average time is slow, up by one (not above 8) when they are fast
\* and fewer than 5% of them failed, and stays otherwise.
C35_DecisionFromLastTenRequests ==
    [][(/\ mgr'.total_requests = mgr.total_requests + 1
        /\ mgr'.total_requests % 10 = 0
        /\ mgrTiming'.passed) =>
          mgr'.max_concurrent =
              IF mgrRecent' * 10 > 10 \/ mgrTiming'.avg = "slow"
              THEN Max(1, mgr.max_concurrent - 1)
              ELSE IF mgrTiming'.avg = "fast" /\ mgrRecent' * 100 < 5 * 10
              THEN Min(8, mgr.max_concurrent + 1)
              ELSE mgr.max_concurrent]_vars

\* C36: with model scoring in use, when the scoring call fails or its reply
\* cannot be parsed the final confidence is the rule score capped at 0.95.
C36_FailedScoringGivesRuleScore ==
    (/\ cpc = "returned"
     /\ cin.llm_enabled /\ cin.has_query /\ cin.nsources > 0
     /\ cin.llm.kind \in {"fails", "unparsable"}) =>
        cout.confidence = Min(RuleConfidence(cin) * 100, 950000)

\* C37: the deep-fetch targets are the first k candidates in the order
\* (priority descending, rank ascending), k the smaller of the number of
\* candidates and the cap (3 when max_results <= 15, 5 above).
C37_TargetsAreBestCandidates ==
    ppc = "returned" =>
        LET cands == JinaCandidates(pin)
            cap == IF pin.max_results <= 15 THEN 3 ELSE 5
            best(a, b) == \/ a.priority > b.priority
                          \/ a.priority = b.priority /\ a.rank < b.rank
        IN  pout = SubSeq(Sorted(cands, best), 1, Min(Cardinality(cands), cap))

\* C38: research started by a confirmation executes the subtasks planned for
\* the plan being confirmed: it never runs while the pending plan is a
\* clarification question, and never runs subtasks left over from an earlier
\* plan.
C38_ConfirmationRunsItsOwnPlan ==
    \A r \in DOMAIN req :
        (/\ req[r].branch = "confirm"
         /\ req[r].pc \in {"stream_gather", "stream_synth"}) =>
            /\ req[r].confirmed.plan.next_action # "NEED_CLARIFICATION"
            /\ req[r].planned_subtasks.for_plan = req[r].confirmed.number

\* C39: a streamed request adds the user's message to the session's message
\* list exactly once, on every path.
C39_UserMessageAddedOnce ==
    dreq.pc \in {"clarifying", "assess", "planning", "executing", "done"} =>
        Cardinality({ i \in DOMAIN dstate.messages :
                        /\ dstate.messages[i].role = "user"
                        /\ dstate.messages[i].content # "earlier" }) = 1

\* C40: recording the outcome of a clarifier turn changes only goal and
\* research_focus of the task draft: what the user supplied (project_info,
\* clarification_responses, modification_notes) stays in it.
C40_UserInformationKept ==
    [][dreq.pc = "assess" =>
          dstate'.task_draft \cap UserKeys = dstate.task_draft \cap UserKeys]_vars

\* C24: every source URL in the citations of a returned ResearchResult is
\* the URL of a source of one of the SubtaskResults given to the
\* synthesizer, and no citation without such a source is kept.
C24_CitationSourcesComeFromResults ==
    synPc = "returned" =>
        \A c \in DOMAIN synRet.citations :
            /\ synRet.citations[c] # <<>>
            /\ \A i \in DOMAIN synRet.citations[c] :
                  \E k \in DOMAIN synResults : \E j \in DOMAIN synResults[k].urls :
                      synResults[k].urls[j] = synRet.citations[c][i]

\* the model cites a source of the results and a URL of no source: one
\* citation is kept, cut down to the source of the results, one is dropped
C24_Witness ==
    /\ synPc = "returned"
    /\ synReply.kind = "json"
    /\ synReply.citations = << <<"x", "a">>, <<"x", "x">> >>
    /\ synRet.citations = << <<"a">> >>

\* C25: every URL cited inline in the synthesis text of a returned
\* ResearchResult is the URL of a source of its SubtaskResults.
C25_InlineCitationsComeFromResults ==
    synPc = "returned" => synRet.synthesis.inline \subseteq ValidUrls(synResults)

\* C26: the findings of a returned ResearchResult hold every SubtaskResult
\* given to the synthesizer as an entry of its own, and no two entries have
\* the same subtask_id.
C26_FindingsHoldEveryResultOnce ==
    synPc = "returned" =>
        /\ \A k \in DOMAIN synResults :
              \E f \in DOMAIN synRet.findings : synRet.findings[f] = synResults[k]
        /\ \A f, g \in DOMAIN synRet.findings :
              f # g => synRet.findings[f].subtask_id # synRet.findings[g].subtask_id

\* C30: synthesize_results never raises, and when the model call or the
\* extraction of its JSON fails it returns all the findings, their raw
\* concatenation as synthesis and no citation.
C30_SynthesizeNeverRaises ==
    /\ synPc # "raised"
    /\ (synPc = "returned" /\ synReply.kind \in {"raise", "no_json"}) =>
          /\ \A k \in DOMAIN synResults :
                \E f \in DOMAIN synRet.findings :
                    synRet.findings[f] = synResults[k]
          /\ synRet.synthesis.kind = "raw"
          /\ synRet.synthesis.of = [k \in DOMAIN synResults |-> synResults[k].focus]
          /\ synRet.citations = <<>>

SpecSearchNext == SearchCall
SpecSearchInit ==
    /\ SearchInit /\ ExecIdle /\ OrchIdle /\ WebIdle /\ GateIdle
    /\ SynthIdle /\ AsmIdle /\ UnitsIdle
SpecSearch == SpecSearchInit /\ [][SpecSearchNext]_vars

SpecRunNext ==
    \/ RunEnds
    \/ RunCancelled
SpecRunInit ==
    /\ RunInit /\ ExecIdle /\ OrchIdle /\ WebIdle /\ GateIdle
    /\ SynthIdle /\ AsmIdle /\ UnitsIdle
SpecRun == SpecRunInit /\ [][SpecRunNext]_vars

SpecExecNext ==
    \/ PoolCall
    \/ \E p \in Positions : PoolRunTask(p)
    \/ PoolGatherDone
    \/ WebDispatch
    \/ \E p \in Positions : WebRunTask(p)
    \/ WebGatherDone
SpecExecInit ==
    /\ ExecInit /\ SearchIdle /\ OrchIdle /\ WebIdle /\ GateIdle
    /\ SynthIdle /\ AsmIdle /\ UnitsIdle
SpecExec == SpecExecInit /\ [][SpecExecNext]_vars

SpecOrchNext ==
    \/ OrchCall
    \/ OrchAssessed
    \/ OrchTopicSearched
    \/ OrchReassessed
    \/ OrchPlanned
    \/ OrchSearchStep
    \/ OrchSynthesized
SpecOrchInit ==
    /\ OrchInit /\ SearchIdle /\ WebIdle /\ GateIdle
    /\ SynthIdle /\ AsmIdle /\ UnitsIdle
SpecOrch == SpecOrchInit /\ [][SpecOrchNext]_vars

SpecWebNext ==
    \/ \E r \in Requests : ChatBegin(r)
    \/ \E r \in Requests : ChatConfirmRan(r)
    \/ \E r \in Requests : ChatRan(r)
    \/ \E r \in Requests : StreamBegin(r)
    \/ \E r \in Requests : StreamResumed(r)
    \/ \E r \in Requests : StreamNewResearch(r)
    \/ \E r \in Requests : StreamConfirmExec(r)
    \/ \E r \in Requests : StreamGathered(r)
    \/ \E r \in Requests : StreamSynthesized(r)
    \/ \E r \in Requests : StreamOrchRan(r)
    \/ \E r \in Requests : StreamAssessCall(r)
    \/ \E r \in Requests : StreamAssessed(r)
    \/ \E r \in Requests : StreamPlanned(r)
SpecWebInit ==
    /\ WebInit /\ SearchIdle /\ ExecIdle /\ OrchIdle /\ GateIdle
    /\ SynthIdle /\ AsmIdle /\ UnitsIdle
SpecWeb == SpecWebInit /\ [][SpecWebNext]_vars

SpecGateNext ==
    \/ GateCall
    \/ GateReplied
SpecGateInit ==
    /\ GateInit /\ SearchIdle /\ ExecIdle /\ OrchIdle /\ WebIdle
    /\ SynthIdle /\ AsmIdle /\ UnitsIdle
SpecGate == SpecGateInit /\ [][SpecGateNext]_vars

SpecSynthNext ==
    \/ SynthCall
    \/ SynthReplied
SpecSynthInit ==
    /\ SynthInit /\ SearchIdle /\ ExecIdle /\ OrchIdle /\ WebIdle
    /\ GateIdle /\ AsmIdle /\ UnitsIdle
SpecSynth == SpecSynthInit /\ [][SpecSynthNext]_vars

SpecAssembleNext == AssembleResult
SpecAssembleInit ==
    /\ AsmInit /\ SearchIdle /\ ExecIdle /\ OrchIdle /\ WebIdle /\ GateIdle
    /\ SynthIdle /\ UnitsIdle
SpecAssemble == SpecAssembleInit /\ [][SpecAssembleNext]_vars

SpecMgrNext == MgrRecord
SpecMgrInit ==
    MgrInit /\ ToolIdle /\ ConfIdle /\ PlanIdle /\ DlgIdle /\ BaseIdle
SpecMgr == SpecMgrInit /\ [][SpecMgrNext]_vars

SpecConfNext == ConfCalculate
SpecConfInit ==
    ConfInit /\ ToolIdle /\ MgrIdle /\ PlanIdle /\ DlgIdle /\ BaseIdle
SpecConf == SpecConfInit /\ [][SpecConfNext]_vars

SpecPlanNext == PlanCreate
SpecPlanInit ==
    PlanInit /\ ToolIdle /\ MgrIdle /\ ConfIdle /\ DlgIdle /\ BaseIdle
SpecPlan == SpecPlanInit /\ [][SpecPlanNext]_vars

SpecDialogNext ==
    \/ DlgBegin
    \/ DlgNewResearch
    \/ DlgSimpleChat
    \/ DlgAssessCall
    \/ DlgAssessed
    \/ DlgPlanned
SpecDialogInit ==
    DlgInit /\ ToolIdle /\ MgrIdle /\ ConfIdle /\ PlanIdle /\ BaseIdle
SpecDialog == SpecDialogInit /\ [][SpecDialogNext]_vars

SpecToolNext ==
    \/ ToolCall
    \/ ToolResearchDone
    \/ ToolFallbackDone
SpecToolInit ==
    ToolInit /\ MgrIdle /\ ConfIdle /\ PlanIdle /\ DlgIdle /\ BaseIdle
SpecTool == SpecToolInit /\ [][SpecToolNext]_vars

====
